---------------------------- MODULE Spec2Model ----------------------------
(***************************************************************************)
(* A model of src/club.py: the store (events, requests, signups, jobs,     *)
(* blocked users), the capacity ledger, the handlers that run as           *)
(* concurrent asyncio tasks and interleave at their await points, and the  *)
(* scheduler loop.                                                         *)
(*                                                                         *)
(* Granularity.  Every `await db_*(...)` opens its own connection and      *)
(* commits before it returns, so each store call is one atomic step; the   *)
(* two ledger calls run BEGIN IMMEDIATE / SELECT / UPDATE+COMMIT as        *)
(* separate awaits on one connection and are modelled step by step, with   *)
(* the store's single write lock (db_lock).  A writer that finds the lock  *)
(* taken waits (sqlite's busy handler); the model lets it wait without a   *)
(* timeout.  Transport calls (bot.send_message, edit_text, answer) change  *)
(* no store state; they are steps only where an exception they raise is    *)
(* not caught around the call.                                             *)
(*                                                                         *)
(* Time is counted in hours.  Titles, user names and admin_map are display *)
(* data and are left out; signups.confirmed_ts is written and never read.  *)
(***************************************************************************)
EXTENDS Integers, Sequences, FiniteSets, TLC

\* ---------------------------------------------------------------- bounds
\* The task slots: how many handler invocations can be in flight at once.
MaxTasks == 2
\* SpecLedger: events ever added, their capacities.
LedgerEvents == 1
MaxCap == 2
\* SpecReserve: concurrent callers of db_event_decrement_remaining.
MaxCallers == 3
\* SpecSched: users, events ever added, jobs ever added, the clock's last hour.
SchedUsers == 1
SchedEvents == 1
SchedJobs == 2
SchedTime == 2
\* SpecSweep: events, requests and jobs ever added, the clock's last hour.
SweepEvents == 2
SweepRequests == 2
SweepJobs == 2
SweepTime == 2
\* SpecSeats: users, the event's capacity, jobs ever added.
SeatUsers == 2
SeatCap == 1
SeatJobs == 6
\* SpecAlone: users, events, requests and jobs ever added.
AloneUsers == 2
AloneEvents == 1
AloneRequests == 2
AloneJobs == 4
\* SpecRelease
RelUsers == 2
RelCap == 2
\* SpecReapprove
ReUsers == 1
ReJobs == 4
ReTime == 1
\* SpecEndToEnd
E2EUsers == 2
E2EStart == 3
\* SpecFrame
FrameUsers == 1
FrameEvents == 1
FrameRequests == 1
FrameJobs == 2
FrameTime == 1
\* SpecJobs: the latest event start and the clock's last hour.
JobsStart == 31
JobsTime == 1
ReqUsers == 2
ReqRequests == 3
NoUsers == 2
NoCap == 2
NoJobs == 6
\* SpecAnswer: the users who are approved, and the event's capacity.
AnsUsers == 1
AnsCap == 1

\* ----------------------------------------------------- program constants
\* timedelta(hours=24), timedelta(hours=1) and db_next_jobs(now_ts, limit=50)
CONFIRM_LEAD == 24
REMINDER_LEAD == 1
JOB_LIMIT == 50

TaskIds == 1..MaxTasks
CallerIds == 1..MaxCallers

VARIABLES
    now,        \* the wall clock, int(datetime.now(tz=MSK).timestamp())
    events,     \* table events: event_id -> row, for the rows that exist
    requests,   \* table requests: a set of rows
    signups,    \* table signups: <<user_id, event_id>> -> row
    jobs,       \* table jobs: a set of rows
    blocked,    \* table blocked_users: a set of user ids
    seq,        \* sqlite_sequence: the last AUTOINCREMENT id of each table
    db_lock,    \* the task holding the store's write lock, 0 when free
    tasks,      \* the handler invocations in flight
    sched,      \* scheduler_loop: its position and locals
    hist        \* history for the properties (never read by the program)

vars == <<now, events, requests, signups, jobs, blocked, seq, db_lock, tasks, sched, hist>>
store == <<events, requests, signups, jobs, blocked, seq>>

\* ------------------------------------------------------------------ rows
\* None for a row that fetchone() did not find.
NoEvent == [event_id |-> 0, start_ts |-> 0, capacity |-> 0, remaining |-> 0, link |-> FALSE]
NoSignup == [status |-> "none", confirm_status |-> "none"]

Min(a, b) == IF a < b THEN a ELSE b

db_get_event(event_id) ==
    IF event_id \in DOMAIN events THEN events[event_id] ELSE NoEvent

db_signup_get(user_id, event_id) ==
    IF <<user_id, event_id>> \in DOMAIN signups THEN signups[<<user_id, event_id>>] ELSE NoSignup

db_is_blocked(user_id) == user_id \in blocked

\* SELECT ... FROM events WHERE start_ts > now
db_list_events_future == {e \in DOMAIN events : events[e].start_ts > now}

\* ----------------------------------------------------------------- tasks
IdleTask ==
    [kind |-> "idle", pc |-> "idle", user_id |-> 0, event_id |-> 0, ans |-> "",
     by_admin |-> FALSE, ev |-> NoEvent, s |-> NoSignup, rem |-> 0, cap |-> 0,
     ok |-> FALSE, req_id |-> 0, now_ts |-> 0]

NewTask(kind, pc, user_id, event_id) ==
    [IdleTask EXCEPT !.kind = kind, !.pc = pc, !.user_id = user_id, !.event_id = event_id]

IdleSched ==
    [pc |-> "sweep", sweep_ts |-> 0, gone |-> {}, now_ts |-> 0, jobs |-> <<>>,
     ev |-> NoEvent, s |-> NoSignup]

\* The write lock is free: a write statement of another connection can start.
CanWrite == db_lock = 0

\* History: something other than the scheduler changed the store or the clock.
Disturb == hist' = [hist EXCEPT !.quiet = FALSE, !.prev = {}]

\* ---------------------------------------------------------------- ledger
\* BEGIN DEFERRED would not take the write lock before the SELECT.
begin_deferred(t) == db_lock' = db_lock

\* db.execute("BEGIN IMMEDIATE;"): take the write lock, waiting while it is held.
begin_immediate(t) == db_lock = 0 /\ db_lock' = t

\* rem + 1 written back without the clamp.
increment_unclamped(rem, cap) == rem + 1

\* rem2 = rem + 1; if rem2 > cap: rem2 = cap
increment_clamped(rem, cap) == IF rem + 1 > cap THEN cap ELSE rem + 1

\* Where the caller of db_event_decrement_remaining goes on with its result.
AfterDecrement(task, ok) ==
    CASE task.kind = "admin_approve" /\ ok -> [task EXCEPT !.ok = ok, !.pc = "find_pending"]
      [] OTHER -> [task EXCEPT !.ok = ok, !.pc = "done"]

\* Where the caller of db_event_increment_remaining goes on.
AfterIncrement(task) ==
    [task EXCEPT !.ok = TRUE, !.pc = "done"]

dec_begin(t) ==
    /\ tasks[t].pc = "dec_begin"
    /\ begin_immediate(t)
    /\ tasks' = [tasks EXCEPT ![t].pc = "dec_select"]
    /\ UNCHANGED <<now, store, sched, hist>>

\* A SELECT whose result is tested for a missing row only, not for rem <= 0.
dec_select_unchecked(t) ==
    /\ tasks[t].pc = "dec_select"
    /\ LET row == db_get_event(tasks[t].event_id) IN
       tasks' = [tasks EXCEPT ![t].rem = row.remaining,
                              ![t].pc = IF row = NoEvent THEN "dec_rollback" ELSE "dec_update"]
    /\ UNCHANGED <<now, store, db_lock, sched, hist>>

dec_select(t) ==
    /\ tasks[t].pc = "dec_select"
    /\ LET row == db_get_event(tasks[t].event_id) IN
       tasks' = [tasks EXCEPT ![t].rem = row.remaining,
                              ![t].pc = IF row = NoEvent \/ row.remaining <= 0
                                        THEN "dec_rollback" ELSE "dec_update"]
    /\ UNCHANGED <<now, store, db_lock, sched, hist>>

dec_rollback(t) ==
    /\ tasks[t].pc = "dec_rollback"
    /\ db_lock' = IF db_lock = t THEN 0 ELSE db_lock
    /\ tasks' = [tasks EXCEPT ![t] = AfterDecrement(tasks[t], FALSE)]
    /\ UNCHANGED <<now, store, sched, hist>>

dec_update(t) ==
    /\ tasks[t].pc = "dec_update"
    /\ events' = [e \in DOMAIN events |->
                    IF e = tasks[t].event_id
                    THEN [events[e] EXCEPT !.remaining = tasks[t].rem - 1]
                    ELSE events[e]]
    /\ db_lock' = IF db_lock = t THEN 0 ELSE db_lock
    /\ tasks' = [tasks EXCEPT ![t] = AfterDecrement(tasks[t], TRUE)]
    /\ Disturb
    /\ UNCHANGED <<now, requests, signups, jobs, blocked, seq, sched>>

inc_begin(t) ==
    /\ tasks[t].pc = "inc_begin"
    /\ begin_immediate(t)
    /\ tasks' = [tasks EXCEPT ![t].pc = "inc_select"]
    /\ UNCHANGED <<now, store, sched, hist>>

inc_select(t) ==
    /\ tasks[t].pc = "inc_select"
    /\ LET row == db_get_event(tasks[t].event_id) IN
       tasks' = [tasks EXCEPT ![t].rem = row.remaining, ![t].cap = row.capacity,
                              ![t].pc = IF row = NoEvent THEN "inc_rollback" ELSE "inc_update"]
    /\ UNCHANGED <<now, store, db_lock, sched, hist>>

inc_rollback(t) ==
    /\ tasks[t].pc = "inc_rollback"
    /\ db_lock' = IF db_lock = t THEN 0 ELSE db_lock
    /\ tasks' = [tasks EXCEPT ![t] = AfterIncrement(tasks[t])]
    /\ UNCHANGED <<now, store, sched, hist>>

inc_update(t) ==
    /\ tasks[t].pc = "inc_update"
    /\ events' = [e \in DOMAIN events |->
                    IF e = tasks[t].event_id
                    THEN [events[e] EXCEPT !.remaining = increment_clamped(tasks[t].rem, tasks[t].cap)]
                    ELSE events[e]]
    /\ db_lock' = IF db_lock = t THEN 0 ELSE db_lock
    /\ tasks' = [tasks EXCEPT ![t] = AfterIncrement(tasks[t])]
    /\ Disturb
    /\ UNCHANGED <<now, requests, signups, jobs, blocked, seq, sched>>

\* The handler returned: its task is gone.
task_exit(t) ==
    /\ tasks[t].pc = "done"
    /\ tasks' = [tasks EXCEPT ![t] = IdleTask]
    /\ UNCHANGED <<now, store, db_lock, sched, hist>>


\* ------------------------------------------------- operator's event CRUD
\* /add_event: cap > 0, start_ts > now_ts, then db_add_event(start_ts, title, cap).
admin_add_event(start_ts, cap) ==
    /\ CanWrite
    /\ cap > 0
    /\ start_ts > now
    /\ seq' = [seq EXCEPT !.events = seq.events + 1]
    /\ events' = [e \in DOMAIN events \cup {seq.events + 1} |->
                    IF e = seq.events + 1
                    THEN [event_id |-> e, start_ts |-> start_ts, capacity |-> cap,
                          remaining |-> cap, link |-> FALSE]
                    ELSE events[e]]
    /\ Disturb
    /\ UNCHANGED <<now, requests, signups, jobs, blocked, db_lock, tasks, sched>>

\* The four DELETEs of one event, committed together.
DeleteEvents(gone) ==
    /\ events' = [e \in DOMAIN events \ gone |-> events[e]]
    /\ requests' = {r \in requests : r.event_id \notin gone}
    /\ signups' = [k \in {x \in DOMAIN signups : x[2] \notin gone} |-> signups[k]]
    /\ jobs' = {j \in jobs : j.event_id \notin gone}

\* /del_event <event_id>: db_delete_event(eid), whether or not the event exists.
admin_del_event(eid) ==
    /\ CanWrite
    /\ DeleteEvents({eid})
    /\ Disturb
    /\ UNCHANGED <<now, blocked, seq, db_lock, tasks, sched>>

\* /set_link <event_id> <link>: UPDATE events SET link=? WHERE event_id=?
admin_set_link(eid) ==
    /\ CanWrite
    /\ events' = [e \in DOMAIN events |->
                    IF e = eid THEN [events[e] EXCEPT !.link = TRUE] ELSE events[e]]
    /\ Disturb
    /\ UNCHANGED <<now, requests, signups, jobs, blocked, seq, db_lock, tasks, sched>>

\* ---------------------------------------------------------- store writes
\* An upsert whose DO UPDATE sets status only and keeps the old confirm_status.
db_signup_confirm_keep(user_id, event_id) ==
    signups' = [k \in DOMAIN signups \cup {<<user_id, event_id>>} |->
                  IF k = <<user_id, event_id>>
                  THEN IF k \in DOMAIN signups
                       THEN [signups[k] EXCEPT !.status = "confirmed"]
                       ELSE [status |-> "confirmed", confirm_status |-> "unknown"]
                  ELSE signups[k]]

\* INSERT INTO signups ... ON CONFLICT(user_id, event_id) DO UPDATE SET
\* status='confirmed', confirm_status='unknown'
db_signup_confirm(user_id, event_id) ==
    signups' = [k \in DOMAIN signups \cup {<<user_id, event_id>>} |->
                  IF k = <<user_id, event_id>>
                  THEN [status |-> "confirmed", confirm_status |-> "unknown"]
                  ELSE signups[k]]

\* UPDATE signups SET confirm_status=? WHERE user_id=? AND event_id=?
db_set_confirm_status(user_id, event_id, status) ==
    signups' = [k \in DOMAIN signups |->
                  IF k = <<user_id, event_id>>
                  THEN [signups[k] EXCEPT !.confirm_status = status]
                  ELSE signups[k]]

\* UPDATE signups SET status='cancelled', confirm_status='no' WHERE ...
db_set_signup_cancelled(user_id, event_id) ==
    signups' = [k \in DOMAIN signups |->
                  IF k = <<user_id, event_id>>
                  THEN [status |-> "cancelled", confirm_status |-> "no"]
                  ELSE signups[k]]

\* INSERT INTO requests(user_id, event_id, status, created_ts) VALUES(?,?,'pending',now)
db_create_request(user_id, event_id) ==
    /\ requests' = requests \cup {[request_id |-> seq.requests + 1, user_id |-> user_id,
                                   event_id |-> event_id, status |-> "pending",
                                   created_ts |-> now]}
    /\ seq' = [seq EXCEPT !.requests = seq.requests + 1]

db_has_pending_request(user_id, event_id) ==
    \E r \in requests : r.user_id = user_id /\ r.event_id = event_id /\ r.status = "pending"

\* The request ids db_find_pending_request may return: ORDER BY created_ts
\* DESC LIMIT 1 picks any of the newest pending rows; {0} stands for None.
db_find_pending_request(user_id, event_id) ==
    LET pending == {r \in requests : r.user_id = user_id /\ r.event_id = event_id
                                     /\ r.status = "pending"}
        newest == {r \in pending : \A q \in pending : q.created_ts <= r.created_ts}
    IN IF pending = {} THEN {0} ELSE {r.request_id : r \in newest}

\* UPDATE requests SET status=? WHERE request_id=?
db_mark_request(request_id, status) ==
    requests' = {IF r.request_id = request_id THEN [r EXCEPT !.status = status] ELSE r
                 : r \in requests}

\* INSERT INTO jobs(job_type, user_id, event_id, run_ts, sent) VALUES(?,?,?,?,0)
db_add_job(job_type, user_id, event_id, run_ts) ==
    /\ jobs' = jobs \cup {[job_id |-> seq.jobs + 1, job_type |-> job_type, user_id |-> user_id,
                           event_id |-> event_id, run_ts |-> run_ts, sent |-> FALSE]}
    /\ seq' = [seq EXCEPT !.jobs = seq.jobs + 1]

\* UPDATE jobs SET sent=1 WHERE job_id=?
db_mark_job_sent(job_id) ==
    jobs' = {IF j.job_id = job_id THEN [j EXCEPT !.sent = TRUE] ELSE j : j \in jobs}

\* The run time with the clamp to now_ts left out.
job_run_ts_unclamped(start_ts, lead, now_ts) == start_ts - lead

\* if confirm_ts <= now_ts: run at now_ts, else at confirm_ts
job_run_ts(start_ts, lead, now_ts) ==
    IF start_ts - lead <= now_ts THEN now_ts ELSE start_ts - lead

\* ---------------------------------------------------------- admin_approve
\* The operator presses "approve" under a request message: callback
\* admin:approve:<event_id>:<user_id> from the operator's chat.
approve_start(t, event_id, user_id) ==
    /\ tasks[t] = IdleTask
    /\ tasks' = [tasks EXCEPT ![t] =
                   [NewTask("admin_approve", "get_event", user_id, event_id)
                      EXCEPT !.by_admin = TRUE]]
    /\ UNCHANGED <<now, store, db_lock, sched, hist>>

\* A chat that passes for the operator's whatever its id.
approve_any_chat(t, event_id, user_id) ==
    /\ tasks[t] = IdleTask
    /\ tasks' = [tasks EXCEPT ![t] = NewTask("admin_approve", "get_event", user_id, event_id)]
    /\ UNCHANGED <<now, store, db_lock, sched, hist>>

\* The same callback from any other chat: if not is_admin(c.message.chat.id):
\* answer and return.
approve_not_admin(t, event_id, user_id) ==
    /\ tasks[t] = IdleTask
    /\ tasks' = [tasks EXCEPT ![t] = NewTask("admin_approve", "done", user_id, event_id)]
    /\ UNCHANGED <<now, store, db_lock, sched, hist>>

approve_get_event(t) ==
    /\ tasks[t].kind = "admin_approve" /\ tasks[t].pc = "get_event"
    /\ LET ev == db_get_event(tasks[t].event_id) IN
       tasks' = [tasks EXCEPT ![t].ev = ev,
                              ![t].pc = IF ev = NoEvent THEN "done" ELSE "dec_begin"]
    /\ UNCHANGED <<now, store, db_lock, sched, hist>>

\* An approve that goes on only when it found a pending request.
approve_find_pending_required(t) ==
    /\ tasks[t].kind = "admin_approve" /\ tasks[t].pc = "find_pending"
    /\ \E req_id \in db_find_pending_request(tasks[t].user_id, tasks[t].event_id) :
         tasks' = [tasks EXCEPT ![t].req_id = req_id,
                                ![t].ok = (req_id # 0),
                                ![t].pc = IF req_id # 0 THEN "mark_request" ELSE "done"]
    /\ UNCHANGED <<now, store, db_lock, sched, hist>>

approve_find_pending(t) ==
    /\ tasks[t].kind = "admin_approve" /\ tasks[t].pc = "find_pending"
    /\ \E req_id \in db_find_pending_request(tasks[t].user_id, tasks[t].event_id) :
         tasks' = [tasks EXCEPT ![t].req_id = req_id,
                                ![t].pc = IF req_id # 0 THEN "mark_request" ELSE "signup_confirm"]
    /\ UNCHANGED <<now, store, db_lock, sched, hist>>

approve_mark_request(t) ==
    /\ tasks[t].kind = "admin_approve" /\ tasks[t].pc = "mark_request"
    /\ CanWrite
    /\ db_mark_request(tasks[t].req_id, "approved")
    /\ tasks' = [tasks EXCEPT ![t].pc = "signup_confirm"]
    /\ Disturb
    /\ UNCHANGED <<now, events, signups, jobs, blocked, seq, db_lock, sched>>

approve_signup_confirm(t) ==
    /\ tasks[t].kind = "admin_approve" /\ tasks[t].pc = "signup_confirm"
    /\ CanWrite
    /\ db_signup_confirm(tasks[t].user_id, tasks[t].event_id)
    /\ tasks' = [tasks EXCEPT ![t].pc = "add_confirm"]
    /\ Disturb
    /\ UNCHANGED <<now, events, requests, jobs, blocked, seq, db_lock, sched>>

\* c.message.edit_text(...) at line 550 is outside any try: when it raises,
\* the handler ends before it schedules the jobs.
approve_edit_text_raises(t) ==
    /\ tasks[t].kind = "admin_approve" /\ tasks[t].pc = "add_confirm"
    /\ tasks' = [tasks EXCEPT ![t].pc = "done", ![t].ok = FALSE]
    /\ UNCHANGED <<now, store, db_lock, sched, hist>>

\* now_ts is read once, after the messages, and used for both jobs.
approve_add_confirm_job(t) ==
    /\ tasks[t].kind = "admin_approve" /\ tasks[t].pc = "add_confirm"
    /\ CanWrite
    /\ db_add_job("confirm", tasks[t].user_id, tasks[t].event_id,
                  job_run_ts(tasks[t].ev.start_ts, CONFIRM_LEAD, now))
    /\ tasks' = [tasks EXCEPT ![t].pc = "add_reminder", ![t].now_ts = now]
    /\ Disturb
    /\ UNCHANGED <<now, events, requests, signups, blocked, db_lock, sched>>

approve_add_reminder_job(t) ==
    /\ tasks[t].kind = "admin_approve" /\ tasks[t].pc = "add_reminder"
    /\ CanWrite
    /\ db_add_job("reminder", tasks[t].user_id, tasks[t].event_id,
                  job_run_ts(tasks[t].ev.start_ts, REMINDER_LEAD, tasks[t].now_ts))
    /\ tasks' = [tasks EXCEPT ![t].pc = "done"]
    /\ Disturb
    /\ UNCHANGED <<now, events, requests, signups, blocked, db_lock, sched>>

\* ----------------------------------------------------- cancel_signup_flow
\* user:cancel:<event_id> from a user, or /cancel_signup <event_id> <user>
\* from the operator.  A user's callback first asks db_is_blocked.
cancel_start(t, event_id, user_id, by_admin) ==
    /\ tasks[t] = IdleTask
    /\ tasks' = [tasks EXCEPT ![t] =
                   [NewTask("cancel", IF by_admin THEN "get_event" ELSE "is_blocked",
                            user_id, event_id) EXCEPT !.by_admin = by_admin]]
    /\ UNCHANGED <<now, store, db_lock, sched, hist>>

cancel_is_blocked(t) ==
    /\ tasks[t].kind = "cancel" /\ tasks[t].pc = "is_blocked"
    /\ tasks' = [tasks EXCEPT ![t].pc = IF db_is_blocked(tasks[t].user_id) THEN "done"
                                        ELSE "get_event"]
    /\ UNCHANGED <<now, store, db_lock, sched, hist>>

cancel_get_event(t) ==
    /\ tasks[t].kind = "cancel" /\ tasks[t].pc = "get_event"
    /\ LET ev == db_get_event(tasks[t].event_id) IN
       tasks' = [tasks EXCEPT ![t].ev = ev,
                              ![t].pc = IF ev = NoEvent THEN "done" ELSE "signup_get"]
    /\ UNCHANGED <<now, store, db_lock, sched, hist>>

\* A cancel that does not look at the signup's status.
cancel_signup_get_unchecked(t) ==
    /\ tasks[t].kind = "cancel" /\ tasks[t].pc = "signup_get"
    /\ LET s == db_signup_get(tasks[t].user_id, tasks[t].event_id) IN
       tasks' = [tasks EXCEPT ![t].s = s, ![t].pc = "set_cancelled"]
    /\ UNCHANGED <<now, store, db_lock, sched, hist>>

cancel_signup_get(t) ==
    /\ tasks[t].kind = "cancel" /\ tasks[t].pc = "signup_get"
    /\ LET s == db_signup_get(tasks[t].user_id, tasks[t].event_id) IN
       tasks' = [tasks EXCEPT ![t].s = s,
                              ![t].pc = IF s.status # "confirmed" THEN "done"
                                        ELSE "set_cancelled"]
    /\ UNCHANGED <<now, store, db_lock, sched, hist>>

cancel_set_cancelled(t) ==
    /\ tasks[t].kind = "cancel" /\ tasks[t].pc = "set_cancelled"
    /\ CanWrite
    /\ db_set_signup_cancelled(tasks[t].user_id, tasks[t].event_id)
    /\ tasks' = [tasks EXCEPT ![t].pc = "inc_begin"]
    /\ Disturb
    /\ UNCHANGED <<now, events, requests, jobs, blocked, seq, db_lock, sched>>

\* ---------------------------------------------------------- admin_decline
\* The operator presses "decline" under a request message: callback
\* admin:decline:<event_id>:<user_id> from the operator's chat.
decline_start(t, event_id, user_id) ==
    /\ tasks[t] = IdleTask
    /\ tasks' = [tasks EXCEPT ![t] = NewTask("admin_decline", "get_event", user_id, event_id)]
    /\ UNCHANGED <<now, store, db_lock, sched, hist>>

\* admin:decline:<event_id>:<user_id> from a chat that is not the
\* operator's: answer and return.
decline_not_admin(t, event_id, user_id) ==
    /\ tasks[t] = IdleTask
    /\ tasks' = [tasks EXCEPT ![t] = NewTask("admin_decline", "done", user_id, event_id)]
    /\ UNCHANGED <<now, store, db_lock, sched, hist>>

decline_get_event(t) ==
    /\ tasks[t].kind = "admin_decline" /\ tasks[t].pc = "get_event"
    /\ tasks' = [tasks EXCEPT ![t].ev = db_get_event(tasks[t].event_id),
                              ![t].pc = "find_pending"]
    /\ UNCHANGED <<now, store, db_lock, sched, hist>>

decline_find_pending(t) ==
    /\ tasks[t].kind = "admin_decline" /\ tasks[t].pc = "find_pending"
    /\ \E req_id \in db_find_pending_request(tasks[t].user_id, tasks[t].event_id) :
         tasks' = [tasks EXCEPT ![t].req_id = req_id,
                                ![t].pc = IF req_id # 0 THEN "mark_request" ELSE "done"]
    /\ UNCHANGED <<now, store, db_lock, sched, hist>>

\* A decline that also hands a seat back.
decline_mark_request_and_release(t) ==
    /\ tasks[t].kind = "admin_decline" /\ tasks[t].pc = "mark_request"
    /\ CanWrite
    /\ db_mark_request(tasks[t].req_id, "declined")
    /\ events' = [e \in DOMAIN events |->
                    IF e = tasks[t].event_id
                    THEN [events[e] EXCEPT !.remaining = increment_clamped(@, events[e].capacity)]
                    ELSE events[e]]
    /\ tasks' = [tasks EXCEPT ![t].pc = "done", ![t].ok = TRUE]
    /\ Disturb
    /\ UNCHANGED <<now, signups, jobs, blocked, seq, db_lock, sched>>

\* await db_mark_request(req_id, "declined"); the messages after it change
\* nothing in the store
decline_mark_request(t) ==
    /\ tasks[t].kind = "admin_decline" /\ tasks[t].pc = "mark_request"
    /\ CanWrite
    /\ db_mark_request(tasks[t].req_id, "declined")
    /\ tasks' = [tasks EXCEPT ![t].pc = "done", ![t].ok = TRUE]
    /\ Disturb
    /\ UNCHANGED <<now, events, signups, jobs, blocked, seq, db_lock, sched>>

\* -------------------------------------------------------- signup_request
\* A user presses an event of the schedule: callback signup:<event_id>.
request_start(t, event_id, user_id) ==
    /\ tasks[t] = IdleTask
    /\ tasks' = [tasks EXCEPT ![t] = NewTask("signup_request", "is_blocked", user_id, event_id)]
    /\ UNCHANGED <<now, store, db_lock, sched, hist>>

request_is_blocked(t) ==
    /\ tasks[t].kind = "signup_request" /\ tasks[t].pc = "is_blocked"
    /\ tasks' = [tasks EXCEPT ![t].pc = IF db_is_blocked(tasks[t].user_id) THEN "done"
                                        ELSE "get_event"]
    /\ UNCHANGED <<now, store, db_lock, sched, hist>>

\* A request handler that does not look at remaining.
request_get_event_unchecked(t) ==
    /\ tasks[t].kind = "signup_request" /\ tasks[t].pc = "get_event"
    /\ LET ev == db_get_event(tasks[t].event_id) IN
       tasks' = [tasks EXCEPT ![t].ev = ev,
                              ![t].pc = IF ev = NoEvent THEN "done" ELSE "has_pending"]
    /\ UNCHANGED <<now, store, db_lock, sched, hist>>

\* if not ev: unavailable; if remaining <= 0: no seats
request_get_event(t) ==
    /\ tasks[t].kind = "signup_request" /\ tasks[t].pc = "get_event"
    /\ LET ev == db_get_event(tasks[t].event_id) IN
       tasks' = [tasks EXCEPT ![t].ev = ev,
                              ![t].pc = IF ev = NoEvent \/ ev.remaining <= 0 THEN "done"
                                        ELSE "has_pending"]
    /\ UNCHANGED <<now, store, db_lock, sched, hist>>

request_has_pending(t) ==
    /\ tasks[t].kind = "signup_request" /\ tasks[t].pc = "has_pending"
    /\ tasks' = [tasks EXCEPT ![t].pc =
                   IF db_has_pending_request(tasks[t].user_id, tasks[t].event_id)
                   THEN "done" ELSE "signup_get"]
    /\ UNCHANGED <<now, store, db_lock, sched, hist>>

\* A request handler that does not look at the signup's status.
request_signup_get_unchecked(t) ==
    /\ tasks[t].kind = "signup_request" /\ tasks[t].pc = "signup_get"
    /\ LET s == db_signup_get(tasks[t].user_id, tasks[t].event_id) IN
       tasks' = [tasks EXCEPT ![t].s = s, ![t].pc = "create_request"]
    /\ UNCHANGED <<now, store, db_lock, sched, hist>>

request_signup_get(t) ==
    /\ tasks[t].kind = "signup_request" /\ tasks[t].pc = "signup_get"
    /\ LET s == db_signup_get(tasks[t].user_id, tasks[t].event_id) IN
       tasks' = [tasks EXCEPT ![t].s = s,
                              ![t].pc = IF s.status = "confirmed" THEN "done"
                                        ELSE "create_request"]
    /\ UNCHANGED <<now, store, db_lock, sched, hist>>

request_create(t) ==
    /\ tasks[t].kind = "signup_request" /\ tasks[t].pc = "create_request"
    /\ CanWrite
    /\ db_create_request(tasks[t].user_id, tasks[t].event_id)
    /\ tasks' = [tasks EXCEPT ![t].pc = "done", ![t].ok = TRUE]
    /\ Disturb
    /\ UNCHANGED <<now, events, signups, jobs, blocked, db_lock, sched>>

\* ---------------------------------------------------------- user_confirm
\* A user answers the confirmation prompt: callback confirm:<event_id>:<ans>.
confirm_start(t, event_id, user_id, ans) ==
    /\ tasks[t] = IdleTask
    /\ tasks' = [tasks EXCEPT ![t] =
                   [NewTask("user_confirm", "is_blocked", user_id, event_id) EXCEPT !.ans = ans]]
    /\ UNCHANGED <<now, store, db_lock, sched, hist>>

confirm_is_blocked(t) ==
    /\ tasks[t].kind = "user_confirm" /\ tasks[t].pc = "is_blocked"
    /\ tasks' = [tasks EXCEPT ![t].pc = IF db_is_blocked(tasks[t].user_id) THEN "done"
                                        ELSE "signup_get"]
    /\ UNCHANGED <<now, store, db_lock, sched, hist>>

confirm_signup_get(t) ==
    /\ tasks[t].kind = "user_confirm" /\ tasks[t].pc = "signup_get"
    /\ tasks' = [tasks EXCEPT ![t].s = db_signup_get(tasks[t].user_id, tasks[t].event_id),
                              ![t].pc = "get_event"]
    /\ UNCHANGED <<now, store, db_lock, sched, hist>>

\* An answer handler that goes on whatever it read.
confirm_get_event_unchecked(t) ==
    /\ tasks[t].kind = "user_confirm" /\ tasks[t].pc = "get_event"
    /\ tasks' = [tasks EXCEPT ![t].ev = db_get_event(tasks[t].event_id),
                              ![t].pc = "set_confirm_status"]
    /\ UNCHANGED <<now, store, db_lock, sched, hist>>

\* if not s or s[0] != "confirmed" or not ev: unavailable
confirm_get_event(t) ==
    /\ tasks[t].kind = "user_confirm" /\ tasks[t].pc = "get_event"
    /\ LET ev == db_get_event(tasks[t].event_id) IN
       tasks' = [tasks EXCEPT ![t].ev = ev,
                              ![t].pc = IF tasks[t].s.status # "confirmed" \/ ev = NoEvent
                                        THEN "done" ELSE "set_confirm_status"]
    /\ UNCHANGED <<now, store, db_lock, sched, hist>>

\* An answer whose write also gives the seat back, for yes as for no.
confirm_set_confirm_status_release(t) ==
    /\ tasks[t].kind = "user_confirm" /\ tasks[t].pc = "set_confirm_status"
    /\ CanWrite
    /\ db_set_confirm_status(tasks[t].user_id, tasks[t].event_id, tasks[t].ans)
    /\ events' = [e \in DOMAIN events |->
                    IF e = tasks[t].event_id
                    THEN [events[e] EXCEPT !.remaining =
                            increment_clamped(events[e].remaining, events[e].capacity)]
                    ELSE events[e]]
    /\ tasks' = [tasks EXCEPT ![t].pc = IF tasks[t].ans = "yes" THEN "done" ELSE "set_cancelled",
                              ![t].ok = (tasks[t].ans = "yes")]
    /\ Disturb
    /\ UNCHANGED <<now, requests, jobs, blocked, seq, db_lock, sched>>

confirm_set_confirm_status(t) ==
    /\ tasks[t].kind = "user_confirm" /\ tasks[t].pc = "set_confirm_status"
    /\ CanWrite
    /\ db_set_confirm_status(tasks[t].user_id, tasks[t].event_id, tasks[t].ans)
    /\ tasks' = [tasks EXCEPT ![t].pc = IF tasks[t].ans = "yes" THEN "done" ELSE "set_cancelled",
                              ![t].ok = (tasks[t].ans = "yes")]
    /\ Disturb
    /\ UNCHANGED <<now, events, requests, jobs, blocked, seq, db_lock, sched>>

\* A "no" answer that releases the seat without marking the signup cancelled.
confirm_release_only(t) ==
    /\ tasks[t].kind = "user_confirm" /\ tasks[t].pc = "set_cancelled"
    /\ tasks' = [tasks EXCEPT ![t].pc = "inc_begin"]
    /\ UNCHANGED <<now, store, db_lock, sched, hist>>

confirm_set_cancelled(t) ==
    /\ tasks[t].kind = "user_confirm" /\ tasks[t].pc = "set_cancelled"
    /\ CanWrite
    /\ db_set_signup_cancelled(tasks[t].user_id, tasks[t].event_id)
    /\ tasks' = [tasks EXCEPT ![t].pc = "inc_begin"]
    /\ Disturb
    /\ UNCHANGED <<now, events, requests, jobs, blocked, seq, db_lock, sched>>

\* ------------------------------------------------------- block / unblock
\* /block <user>: INSERT OR REPLACE INTO blocked_users
admin_block(user_id) ==
    /\ CanWrite
    /\ blocked' = blocked \cup {user_id}
    /\ Disturb
    /\ UNCHANGED <<now, events, requests, signups, jobs, seq, db_lock, tasks, sched>>

\* /unblock <user>: DELETE FROM blocked_users WHERE user_id=?
admin_unblock(user_id) ==
    /\ CanWrite
    /\ blocked' = blocked \ {user_id}
    /\ Disturb
    /\ UNCHANGED <<now, events, requests, signups, jobs, seq, db_lock, tasks, sched>>

\* The clock moves on.
Tick ==
    /\ now' = now + 1
    /\ Disturb
    /\ UNCHANGED <<store, db_lock, tasks, sched>>

\* -------------------------------------------------------- scheduler_loop
\* The columns db_next_jobs selects.
JobTuple(j) ==
    [job_id |-> j.job_id, job_type |-> j.job_type, user_id |-> j.user_id,
     event_id |-> j.event_id, run_ts |-> j.run_ts]

\* A WHERE clause without the sent flag.
DueJobs_any_sent(now_ts) == {j \in jobs : j.run_ts <= now_ts}

\* A WHERE clause without the run time.
DueJobs_any_time(now_ts) == {j \in jobs : ~j.sent}

\* WHERE sent=0 AND run_ts<=?
DueJobs(now_ts) == {j \in jobs : ~j.sent /\ j.run_ts <= now_ts}

\* ORDER BY run_ts ASC LIMIT ?: every order of the due rows that ascends in
\* run_ts (rows of equal run_ts come in an order SQL leaves open), cut to limit.
db_next_jobs(now_ts, limit) ==
    LET due == DueJobs(now_ts)
        n == Cardinality(due)
        orders == {f \in [1..n -> due] :
                     /\ \A a, b \in 1..n : a # b => f[a] # f[b]
                     /\ \A a, b \in 1..n : a < b => f[a].run_ts <= f[b].run_ts}
    IN {[i \in 1..Min(limit, n) |-> JobTuple(f[i])] : f \in orders}

\* SELECT event_id FROM events WHERE start_ts < ?: an event starting now stays.
ExpiredEvents_strict(now_ts) == {e \in DOMAIN events : events[e].start_ts < now_ts}

\* SELECT event_id FROM events WHERE start_ts<=?
ExpiredEvents(now_ts) == {e \in DOMAIN events : events[e].start_ts <= now_ts}

\* The job the for loop is at, and where the loop goes after it.
CurJob == Head(sched.jobs)
NextJobPc == IF Len(sched.jobs) > 1 THEN "get_event" ELSE "sleep"

\* db_cleanup_expired_events() begins a poll: now_ts = now(), then
\* SELECT event_id FROM events WHERE start_ts<=?
sched_sweep_select ==
    /\ sched.pc = "sweep"
    /\ sched' = [sched EXCEPT !.pc = "sweep_delete", !.sweep_ts = now,
                              !.gone = ExpiredEvents(now)]
    /\ hist' = [hist EXCEPT !.prev = IF hist.quiet THEN hist.cur ELSE {},
                            !.quiet = TRUE, !.cur = {}]
    /\ UNCHANGED <<now, store, db_lock, tasks>>

\* for (eid,) in rows: the four DELETEs; then db.commit()
sched_sweep_delete ==
    /\ sched.pc = "sweep_delete"
    /\ IF sched.gone = {}
       THEN UNCHANGED <<events, requests, signups, jobs>>
       ELSE CanWrite /\ DeleteEvents(sched.gone)
    /\ sched' = [sched EXCEPT !.pc = "fetch", !.sweep_ts = 0, !.gone = {}]
    /\ UNCHANGED <<now, blocked, seq, db_lock, tasks, hist>>

\* now_ts = now(); jobs = await db_next_jobs(now_ts, limit=50)
sched_fetch ==
    /\ sched.pc = "fetch"
    /\ \E js \in db_next_jobs(now, JOB_LIMIT) :
         sched' = [sched EXCEPT !.now_ts = now, !.jobs = js,
                                !.pc = IF js = <<>> THEN "sleep" ELSE "get_event"]
    /\ UNCHANGED <<now, store, db_lock, tasks, hist>>

sched_get_event ==
    /\ sched.pc = "get_event"
    /\ sched' = [sched EXCEPT !.ev = db_get_event(CurJob.event_id), !.pc = "signup_get"]
    /\ UNCHANGED <<now, store, db_lock, tasks, hist>>

\* A test that takes any signup row, whatever its status.
signup_stale_any_status(ev, s) == ev = NoEvent \/ s = NoSignup

\* if not ev or not s or s[0] != "confirmed"
signup_stale(ev, s) == ev = NoEvent \/ s = NoSignup \/ s.status # "confirmed"

\* s = await db_signup_get(user_id, event_id); when stale: mark sent, continue
sched_signup_get ==
    /\ sched.pc = "signup_get"
    /\ LET s == db_signup_get(CurJob.user_id, CurJob.event_id)
       IN sched' = [sched EXCEPT !.s = s,
                                 !.pc = IF signup_stale(sched.ev, s) THEN "mark_skip"
                                        ELSE "is_blocked"]
    /\ UNCHANGED <<now, store, db_lock, tasks, hist>>

\* The start-time test that lets a job of an event starting right now through.
start_passed_strict(start_ts, now_ts) == start_ts < now_ts

\* if start_ts <= now_ts: mark sent, continue
start_passed(start_ts, now_ts) == start_ts <= now_ts

\* if await db_is_blocked(user_id): mark sent, continue; then the start-time test
sched_is_blocked ==
    /\ sched.pc = "is_blocked"
    /\ LET stale == db_is_blocked(CurJob.user_id) \/ start_passed(sched.ev.start_ts, sched.now_ts)
       IN sched' = [sched EXCEPT !.pc = IF stale THEN "mark_skip" ELSE "send"]
    /\ UNCHANGED <<now, store, db_lock, tasks, hist>>

\* db_mark_job_sent(job_id); continue
sched_mark_skip ==
    /\ sched.pc = "mark_skip"
    /\ CanWrite
    /\ db_mark_job_sent(CurJob.job_id)
    /\ sched' = [sched EXCEPT !.jobs = Tail(sched.jobs), !.pc = NextJobPc,
                              !.ev = NoEvent, !.s = NoSignup]
    /\ UNCHANGED <<now, events, requests, signups, blocked, seq, db_lock, tasks, hist>>

\* bot.send_message(...) returns.
sched_send_ok ==
    /\ sched.pc = "send"
    /\ sched' = [sched EXCEPT !.pc = "mark_sent"]
    /\ hist' = [hist EXCEPT !.cur = @ \cup {CurJob.job_id}]
    /\ UNCHANGED <<now, store, db_lock, tasks>>

\* bot.send_message(...) raises with no except around the poll: the
\* exception leaves scheduler_loop and its task is over.
sched_send_raises_uncaught ==
    /\ sched.pc = "send"
    /\ sched' = [sched EXCEPT !.pc = "dead", !.jobs = <<>>, !.ev = NoEvent, !.s = NoSignup]
    /\ hist' = [hist EXCEPT !.cur = @ \cup {CurJob.job_id}]
    /\ UNCHANGED <<now, store, db_lock, tasks>>

\* bot.send_message(...) raises: the except around the whole poll swallows
\* it, and the loop goes to sleep.
sched_send_raises ==
    /\ sched.pc = "send"
    /\ sched' = [sched EXCEPT !.pc = "sleep", !.jobs = <<>>, !.ev = NoEvent, !.s = NoSignup]
    /\ hist' = [hist EXCEPT !.cur = @ \cup {CurJob.job_id}]
    /\ UNCHANGED <<now, store, db_lock, tasks>>

\* db_mark_job_sent(job_id) after the send
sched_mark_sent ==
    /\ sched.pc = "mark_sent"
    /\ CanWrite
    /\ db_mark_job_sent(CurJob.job_id)
    /\ sched' = [sched EXCEPT !.jobs = Tail(sched.jobs), !.pc = NextJobPc,
                              !.ev = NoEvent, !.s = NoSignup]
    /\ UNCHANGED <<now, events, requests, signups, blocked, seq, db_lock, tasks, hist>>

\* await asyncio.sleep(20), then the next poll
sched_sleep ==
    /\ sched.pc = "sleep"
    /\ sched' = [sched EXCEPT !.pc = "sweep"]
    /\ UNCHANGED <<now, store, db_lock, tasks, hist>>

SchedStep ==
    \/ sched_sweep_select
    \/ sched_sweep_delete
    \/ sched_fetch
    \/ sched_get_event
    \/ sched_signup_get
    \/ sched_is_blocked
    \/ sched_mark_skip
    \/ sched_send_ok
    \/ sched_send_raises
    \/ sched_mark_sent
    \/ sched_sleep

\* ------------------------------------------------------- ledger harness
\* A caller runs db_event_decrement_remaining(event_id) on its own.
call_reserve(t, event_id) ==
    /\ tasks[t] = IdleTask
    /\ tasks' = [tasks EXCEPT ![t] = NewTask("reserve", "dec_begin", 0, event_id)]
    /\ UNCHANGED <<now, store, db_lock, sched, hist>>

\* A caller runs db_event_increment_remaining(event_id) on its own.
call_release(t, event_id) ==
    /\ tasks[t] = IdleTask
    /\ tasks' = [tasks EXCEPT ![t] = NewTask("release", "inc_begin", 0, event_id)]
    /\ UNCHANGED <<now, store, db_lock, sched, hist>>

\* k0: the seats left when the reserve calls started (SpecReserve).
\* cur: the job ids bot.send_message was called for in the scheduler's
\* current poll.  quiet: nothing but the scheduler has changed the store or
\* the clock since that poll began.  prev: the job ids send_message was called
\* for in the poll before, when nothing but the scheduler has changed the
\* store or the clock since that poll began; {} otherwise.
NoHist == [k0 |-> 0, quiet |-> FALSE, cur |-> {}, prev |-> {}]

\* db_init() on an empty file: every table empty.
Init ==
    /\ now = 0
    /\ events = <<>>
    /\ requests = {}
    /\ signups = <<>>
    /\ jobs = {}
    /\ blocked = {}
    /\ seq = [events |-> 0, requests |-> 0, jobs |-> 0]
    /\ db_lock = 0
    /\ tasks = [t \in TaskIds |-> IdleTask]
    /\ sched = IdleSched
    /\ hist = NoHist

\* Approvals in flight: each will add two jobs.
Approving == Cardinality({t \in DOMAIN tasks : tasks[t].kind = "admin_approve"})
Requesting == Cardinality({t \in DOMAIN tasks : tasks[t].kind = "signup_request"})

\* ------------------------------------------------------------ SpecLedger
\* Any number of try_reserve / release calls, MaxTasks of them at a time,
\* against events the operator adds and deletes.
NextLedger ==
    \/ \E cap \in 1..MaxCap : seq.events < LedgerEvents /\ admin_add_event(now + 1, cap)
    \/ \E eid \in 1..LedgerEvents : admin_del_event(eid)
    \/ \E t \in TaskIds, e \in 1..LedgerEvents : call_reserve(t, e)
    \/ \E t \in TaskIds, e \in 1..LedgerEvents : call_release(t, e)
    \/ \E t \in TaskIds : dec_begin(t)
    \/ \E t \in TaskIds : dec_select(t)
    \/ \E t \in TaskIds : dec_rollback(t)
    \/ \E t \in TaskIds : dec_update(t)
    \/ \E t \in TaskIds : inc_begin(t)
    \/ \E t \in TaskIds : inc_select(t)
    \/ \E t \in TaskIds : inc_rollback(t)
    \/ \E t \in TaskIds : inc_update(t)
    \/ \E t \in TaskIds : task_exit(t)

SpecLedger == Init /\ [][NextLedger]_vars

\* ----------------------------------------------------------- SpecReserve
\* One event with capacity cap and k seats left (cap - k approvals went
\* through), and n calls of db_event_decrement_remaining about to start.
InitReserve ==
    \E cap \in 1..MaxCap : \E k \in 0..cap : \E n \in 1..MaxCallers :
        /\ now = 0
        /\ events = [e \in {1} |-> [event_id |-> 1, start_ts |-> 1, capacity |-> cap,
                                    remaining |-> k, link |-> FALSE]]
        /\ requests = {}
        /\ signups = <<>>
        /\ jobs = {}
        /\ blocked = {}
        /\ seq = [events |-> 1, requests |-> 0, jobs |-> 0]
        /\ db_lock = 0
        /\ tasks = [t \in CallerIds |-> IF t <= n THEN NewTask("reserve", "dec_begin", 0, 1)
                                        ELSE IdleTask]
        /\ sched = IdleSched
        /\ hist = [NoHist EXCEPT !.k0 = k]

NextReserve ==
    \/ \E t \in CallerIds : dec_begin(t)
    \/ \E t \in CallerIds : dec_select(t)
    \/ \E t \in CallerIds : dec_rollback(t)
    \/ \E t \in CallerIds : dec_update(t)

SpecReserve == InitReserve /\ [][NextReserve]_vars

\* ------------------------------------------------------------- SpecSched
\* The scheduler beside one handler at a time: the operator adds and deletes
\* events, approves and cancels signups and blocks users, while the clock
\* runs and sends may fail.
NextSched ==
    \/ now < SchedTime /\ Tick
    \/ \E start_ts \in (now + 1)..SchedTime :
         seq.events < SchedEvents /\ admin_add_event(start_ts, MaxCap)
    \/ \E eid \in DOMAIN events : admin_del_event(eid)
    \/ \E e \in DOMAIN events, u \in 1..SchedUsers :
         seq.jobs + 2 * Approving + 2 <= SchedJobs /\ approve_start(1, e, u)
    \/ \E k \in DOMAIN signups : cancel_start(1, k[2], k[1], TRUE)
    \/ approve_get_event(1)
    \/ approve_find_pending(1)
    \/ approve_signup_confirm(1)
    \/ approve_edit_text_raises(1)
    \/ approve_add_confirm_job(1)
    \/ approve_add_reminder_job(1)
    \/ cancel_get_event(1)
    \/ cancel_signup_get(1)
    \/ cancel_set_cancelled(1)
    \/ dec_begin(1)
    \/ dec_select(1)
    \/ dec_rollback(1)
    \/ dec_update(1)
    \/ inc_begin(1)
    \/ inc_select(1)
    \/ inc_rollback(1)
    \/ inc_update(1)
    \/ task_exit(1)
    \/ \E u \in 1..SchedUsers : admin_block(u)
    \/ sched_sweep_select
    \/ sched_sweep_delete
    \/ sched_fetch
    \/ sched_get_event
    \/ sched_signup_get
    \/ sched_is_blocked
    \/ sched_mark_skip
    \/ sched_send_ok
    \/ sched_send_raises
    \/ sched_mark_sent
    \/ sched_sleep

SpecSched == Init /\ [][NextSched]_vars

\* What the event loop runs of a handler once it has started.
HandlerStep(t) ==
    \/ approve_get_event(t) \/ approve_find_pending(t) \/ approve_mark_request(t)
    \/ approve_signup_confirm(t) \/ approve_add_confirm_job(t) \/ approve_add_reminder_job(t)
    \/ cancel_is_blocked(t) \/ cancel_get_event(t) \/ cancel_signup_get(t)
    \/ cancel_set_cancelled(t)
    \/ dec_begin(t) \/ dec_select(t) \/ dec_rollback(t) \/ dec_update(t)
    \/ inc_begin(t) \/ inc_select(t) \/ inc_rollback(t) \/ inc_update(t)
    \/ task_exit(t)

\* The event loop runs every task that can go on, the scheduler's among
\* them; each poll ends in asyncio.sleep(20), so the clock moves on.
SpecSchedFair ==
    /\ SpecSched
    /\ WF_vars(SchedStep)
    /\ WF_vars(HandlerStep(1))
    /\ WF_vars(now < SchedTime /\ Tick)

\* ------------------------------------------------------------- SpecSweep
\* The sweep over two events that carry requests, signups and jobs: a user
\* asks for a seat, the operator approves, the clock runs.
NextSweep ==
    \/ now < SweepTime /\ Tick
    \/ \E start_ts \in (now + 1)..SweepTime :
         seq.events < SweepEvents /\ admin_add_event(start_ts, 1)
    \/ \E e \in DOMAIN events :
         seq.requests + Requesting < SweepRequests /\ request_start(1, e, 1)
    \/ \E e \in DOMAIN events :
         seq.jobs + 2 * Approving + 2 <= SweepJobs /\ approve_start(1, e, 1)
    \/ request_is_blocked(1)
    \/ request_get_event(1)
    \/ request_has_pending(1)
    \/ request_signup_get(1)
    \/ request_create(1)
    \/ approve_get_event(1)
    \/ approve_find_pending(1)
    \/ approve_mark_request(1)
    \/ approve_signup_confirm(1)
    \/ approve_edit_text_raises(1)
    \/ approve_add_confirm_job(1)
    \/ approve_add_reminder_job(1)
    \/ dec_begin(1)
    \/ dec_select(1)
    \/ dec_rollback(1)
    \/ dec_update(1)
    \/ task_exit(1)
    \/ sched_sweep_select
    \/ sched_sweep_delete
    \/ sched_fetch
    \/ sched_get_event
    \/ sched_signup_get
    \/ sched_is_blocked
    \/ sched_mark_skip
    \/ sched_send_ok
    \/ sched_send_raises
    \/ sched_mark_sent
    \/ sched_sleep

SpecSweep == Init /\ [][NextSweep]_vars

\* ------------------------------------------------------------- SpecSeats
\* Seats of one event: the operator's approvals, the users' cancellations
\* and their "no" answers to the confirmation prompt, MaxTasks handlers at a
\* time.
NextSeats ==
    \/ seq.events < 1 /\ admin_add_event(now + 1, SeatCap)
    \/ \E t \in TaskIds, e \in DOMAIN events, u \in 1..SeatUsers :
         seq.jobs + 2 * Approving + 2 <= SeatJobs /\ approve_start(t, e, u)
    \/ \E t \in TaskIds, e \in DOMAIN events, u \in 1..SeatUsers :
         cancel_start(t, e, u, FALSE)
    \/ \E t \in TaskIds, k \in DOMAIN signups : confirm_start(t, k[2], k[1], "no")
    \/ \E t \in TaskIds : approve_get_event(t)
    \/ \E t \in TaskIds : approve_find_pending(t)
    \/ \E t \in TaskIds : approve_signup_confirm(t)
    \/ \E t \in TaskIds : approve_add_confirm_job(t)
    \/ \E t \in TaskIds : approve_add_reminder_job(t)
    \/ \E t \in TaskIds : cancel_is_blocked(t)
    \/ \E t \in TaskIds : cancel_get_event(t)
    \/ \E t \in TaskIds : cancel_signup_get(t)
    \/ \E t \in TaskIds : cancel_set_cancelled(t)
    \/ \E t \in TaskIds : confirm_is_blocked(t)
    \/ \E t \in TaskIds : confirm_signup_get(t)
    \/ \E t \in TaskIds : confirm_get_event(t)
    \/ \E t \in TaskIds : confirm_set_confirm_status(t)
    \/ \E t \in TaskIds : confirm_set_cancelled(t)
    \/ \E t \in TaskIds : dec_begin(t)
    \/ \E t \in TaskIds : dec_select(t)
    \/ \E t \in TaskIds : dec_rollback(t)
    \/ \E t \in TaskIds : dec_update(t)
    \/ \E t \in TaskIds : inc_begin(t)
    \/ \E t \in TaskIds : inc_select(t)
    \/ \E t \in TaskIds : inc_update(t)
    \/ \E t \in TaskIds : task_exit(t)

SpecSeats == Init /\ [][NextSeats]_vars

\* ---------------------------------------------------------- SpecRequests
\* Users press "sign up" for one event, MaxTasks handlers at a time, and the
\* operator declines requests.
NextRequests ==
    \/ seq.events < 1 /\ admin_add_event(now + 1, 1)
    \/ \E t \in TaskIds, e \in DOMAIN events, u \in 1..ReqUsers :
         seq.requests + Requesting < ReqRequests /\ request_start(t, e, u)
    \/ \E t \in TaskIds, e \in DOMAIN events, u \in 1..ReqUsers : decline_start(t, e, u)
    \/ \E t \in TaskIds : request_is_blocked(t)
    \/ \E t \in TaskIds : request_get_event(t)
    \/ \E t \in TaskIds : request_has_pending(t)
    \/ \E t \in TaskIds : request_signup_get(t)
    \/ \E t \in TaskIds : request_create(t)
    \/ \E t \in TaskIds : decline_get_event(t)
    \/ \E t \in TaskIds : decline_find_pending(t)
    \/ \E t \in TaskIds : decline_mark_request(t)
    \/ \E t \in TaskIds : task_exit(t)

SpecRequests == Init /\ [][NextRequests]_vars

\* ------------------------------------------------------ SpecNoThenCancel
\* The caller of "answer no, then cancel": when the handler of a "no" answer
\* has returned, cancel_signup_flow is invoked for the same user and event,
\* by the user (callback user:cancel) or by the operator.
no_then_cancel(t, by_admin) ==
    /\ tasks[t].kind = "user_confirm" /\ tasks[t].ans = "no" /\ tasks[t].pc = "done"
    /\ tasks' = [tasks EXCEPT ![t] =
                   [NewTask("cancel", IF by_admin THEN "get_event" ELSE "is_blocked",
                            tasks[t].user_id, tasks[t].event_id) EXCEPT !.by_admin = by_admin]]
    /\ UNCHANGED <<now, store, db_lock, sched, hist>>

\* One handler at a time: approvals, "no" answers, and after each "no"
\* answer a cancel of the same signup.  The cancel's own write is not among
\* the steps: C20 states that the cancel never gets to it.
NextNoThenCancel ==
    \/ tasks[1] = IdleTask /\ seq.events < 1 /\ admin_add_event(now + 1, NoCap)
    \/ \E e \in DOMAIN events, u \in 1..NoUsers :
         seq.jobs + 2 <= NoJobs /\ approve_start(1, e, u)
    \/ \E e \in DOMAIN events, u \in 1..NoUsers : confirm_start(1, e, u, "no")
    \/ \E by_admin \in BOOLEAN : no_then_cancel(1, by_admin)
    \/ approve_get_event(1)
    \/ approve_find_pending(1)
    \/ approve_signup_confirm(1)
    \/ approve_add_confirm_job(1)
    \/ approve_add_reminder_job(1)
    \/ confirm_is_blocked(1)
    \/ confirm_signup_get(1)
    \/ confirm_get_event(1)
    \/ confirm_set_confirm_status(1)
    \/ confirm_set_cancelled(1)
    \/ cancel_is_blocked(1)
    \/ cancel_get_event(1)
    \/ cancel_signup_get(1)
    \/ dec_begin(1)
    \/ dec_select(1)
    \/ dec_rollback(1)
    \/ dec_update(1)
    \/ inc_begin(1)
    \/ inc_select(1)
    \/ inc_update(1)
    \/ tasks[1].kind # "user_confirm" /\ task_exit(1)

SpecNoThenCancel == Init /\ [][NextNoThenCancel]_vars

\* ----------------------------------------------------------- SpecRelease
\* Releases of seats, MaxTasks handlers at a time: the operator approves
\* each user once (a user who has no signup row and no approve running),
\* and the users and the operator cancel and the users answer no, the
\* handlers interleaving at their awaits.
NextRelease ==
    \/ seq.events < 1 /\ admin_add_event(now + 1, RelCap)
    \/ \E t \in TaskIds, e \in DOMAIN events, u \in 1..RelUsers :
         /\ <<u, e>> \notin DOMAIN signups
         /\ \A o \in TaskIds : ~(tasks[o].kind = "admin_approve" /\ tasks[o].user_id = u)
         /\ approve_start(t, e, u)
    \/ \E t \in TaskIds, k \in DOMAIN signups, by_admin \in BOOLEAN :
         cancel_start(t, k[2], k[1], by_admin)
    \/ \E t \in TaskIds, k \in DOMAIN signups : confirm_start(t, k[2], k[1], "no")
    \/ \E t \in TaskIds : approve_get_event(t)
    \/ \E t \in TaskIds : approve_find_pending(t)
    \/ \E t \in TaskIds : approve_signup_confirm(t)
    \/ \E t \in TaskIds : approve_add_confirm_job(t)
    \/ \E t \in TaskIds : approve_add_reminder_job(t)
    \/ \E t \in TaskIds : cancel_is_blocked(t)
    \/ \E t \in TaskIds : cancel_get_event(t)
    \/ \E t \in TaskIds : cancel_signup_get(t)
    \/ \E t \in TaskIds : cancel_set_cancelled(t)
    \/ \E t \in TaskIds : confirm_is_blocked(t)
    \/ \E t \in TaskIds : confirm_signup_get(t)
    \/ \E t \in TaskIds : confirm_get_event(t)
    \/ \E t \in TaskIds : confirm_set_confirm_status(t)
    \/ \E t \in TaskIds : confirm_set_cancelled(t)
    \/ \E t \in TaskIds : dec_begin(t)
    \/ \E t \in TaskIds : dec_select(t)
    \/ \E t \in TaskIds : dec_update(t)
    \/ \E t \in TaskIds : inc_begin(t)
    \/ \E t \in TaskIds : inc_select(t)
    \/ \E t \in TaskIds : inc_update(t)
    \/ \E t \in TaskIds : task_exit(t)

SpecRelease == Init /\ [][NextRelease]_vars

\* ------------------------------------------------------------ SpecAnswer
\* Answers to the confirmation prompt beside cancels, MaxTasks handlers at a
\* time: the operator approves each user once, a user who has a signup row
\* answers yes or no, and the users and the operator cancel, the handlers
\* interleaving at their awaits.
NextAnswer ==
    \/ seq.events < 1 /\ admin_add_event(now + 1, AnsCap)
    \/ \E t \in TaskIds, e \in DOMAIN events, u \in 1..AnsUsers :
         /\ <<u, e>> \notin DOMAIN signups
         /\ \A o \in TaskIds : ~(tasks[o].kind = "admin_approve" /\ tasks[o].user_id = u)
         /\ approve_start(t, e, u)
    \/ \E t \in TaskIds, k \in DOMAIN signups, by_admin \in BOOLEAN :
         cancel_start(t, k[2], k[1], by_admin)
    \/ \E t \in TaskIds, k \in DOMAIN signups, ans \in {"yes", "no"} :
         confirm_start(t, k[2], k[1], ans)
    \/ \E t \in TaskIds : approve_get_event(t)
    \/ \E t \in TaskIds : approve_find_pending(t)
    \/ \E t \in TaskIds : approve_signup_confirm(t)
    \/ \E t \in TaskIds : approve_add_confirm_job(t)
    \/ \E t \in TaskIds : approve_add_reminder_job(t)
    \/ \E t \in TaskIds : cancel_is_blocked(t)
    \/ \E t \in TaskIds : cancel_get_event(t)
    \/ \E t \in TaskIds : cancel_signup_get(t)
    \/ \E t \in TaskIds : cancel_set_cancelled(t)
    \/ \E t \in TaskIds : confirm_is_blocked(t)
    \/ \E t \in TaskIds : confirm_signup_get(t)
    \/ \E t \in TaskIds : confirm_get_event(t)
    \/ \E t \in TaskIds : confirm_set_confirm_status(t)
    \/ \E t \in TaskIds : confirm_set_cancelled(t)
    \/ \E t \in TaskIds : dec_begin(t)
    \/ \E t \in TaskIds : dec_select(t)
    \/ \E t \in TaskIds : dec_update(t)
    \/ \E t \in TaskIds : inc_begin(t)
    \/ \E t \in TaskIds : inc_select(t)
    \/ \E t \in TaskIds : inc_update(t)
    \/ \E t \in TaskIds : task_exit(t)

SpecAnswer == Init /\ [][NextAnswer]_vars

\* --------------------------------------------------------- SpecReapprove
\* One seat through its confirmed periods beside the scheduler: the operator
\* approves a user who holds no seat, the user or the operator cancels, the
\* operator approves again, while the clock runs and the scheduler polls.
\* The event starts after the last hour of the run, so it is never swept and
\* the ledger finds its row every time.
NextReapprove ==
    \/ now < ReTime /\ Tick
    \/ seq.events < 1 /\ admin_add_event(ReTime + 1, 1)
    \/ \E e \in DOMAIN events, u \in 1..ReUsers :
         /\ seq.jobs + 2 <= ReJobs
         /\ db_signup_get(u, e).status # "confirmed"
         /\ approve_start(1, e, u)
    \/ \E k \in DOMAIN signups, by_admin \in BOOLEAN :
         signups[k].status = "confirmed" /\ cancel_start(1, k[2], k[1], by_admin)
    \/ approve_get_event(1)
    \/ approve_find_pending(1)
    \/ approve_signup_confirm(1)
    \/ approve_edit_text_raises(1)
    \/ approve_add_confirm_job(1)
    \/ approve_add_reminder_job(1)
    \/ cancel_is_blocked(1)
    \/ cancel_get_event(1)
    \/ cancel_signup_get(1)
    \/ cancel_set_cancelled(1)
    \/ dec_begin(1)
    \/ dec_select(1)
    \/ dec_update(1)
    \/ inc_begin(1)
    \/ inc_select(1)
    \/ inc_update(1)
    \/ task_exit(1)
    \/ sched_sweep_select
    \/ sched_sweep_delete
    \/ sched_fetch
    \/ sched_get_event
    \/ sched_signup_get
    \/ sched_is_blocked
    \/ sched_mark_skip
    \/ sched_send_ok
    \/ sched_send_raises
    \/ sched_mark_sent
    \/ sched_sleep

SpecReapprove == Init /\ [][NextReapprove]_vars

\* ---------------------------------------------------------- SpecEndToEnd
\* The users that have a signup row.
SeatHolders == {k[1] : k \in DOMAIN signups}

\* The end-to-end run on one event of capacity 1, one operation after
\* another: a first user asks and is approved; then the other user asks, any
\* number of times, and the first user cancels, himself or through the
\* operator; the other user asks until a request of his is pending.
NextEndToEnd ==
    \/ \E start_ts \in (now + 1)..E2EStart : seq.events < 1 /\ admin_add_event(start_ts, 1)
    \/ \E e \in DOMAIN events, u \in 1..E2EUsers :
         requests = {} /\ SeatHolders = {} /\ request_start(1, e, u)
    \/ \E r \in requests :
         r.status = "pending" /\ SeatHolders = {} /\ approve_start(1, r.event_id, r.user_id)
    \/ \E e \in DOMAIN events, u \in (1..E2EUsers) \ SeatHolders :
         SeatHolders # {} /\ ~db_has_pending_request(u, e) /\ request_start(1, e, u)
    \/ \E k \in DOMAIN signups, by_admin \in BOOLEAN :
         signups[k].status = "confirmed" /\ cancel_start(1, k[2], k[1], by_admin)
    \/ request_is_blocked(1)
    \/ request_get_event(1)
    \/ request_has_pending(1)
    \/ request_signup_get(1)
    \/ request_create(1)
    \/ approve_get_event(1)
    \/ approve_find_pending(1)
    \/ approve_mark_request(1)
    \/ approve_signup_confirm(1)
    \/ approve_edit_text_raises(1)
    \/ approve_add_confirm_job(1)
    \/ approve_add_reminder_job(1)
    \/ cancel_is_blocked(1)
    \/ cancel_get_event(1)
    \/ cancel_signup_get(1)
    \/ cancel_set_cancelled(1)
    \/ dec_begin(1)
    \/ dec_select(1)
    \/ dec_update(1)
    \/ inc_begin(1)
    \/ inc_select(1)
    \/ inc_update(1)
    \/ task_exit(1)

SpecEndToEnd == Init /\ [][NextEndToEnd]_vars

\* ------------------------------------------------------------- SpecFrame
\* Every operation on the store beside the scheduler: users ask, answer and
\* cancel, the operator approves, declines, cancels, edits events and blocks
\* users, callbacks arrive from chats that are not the operator's, and the
\* clock runs.  One handler at a time; the operator's commands and the
\* scheduler's steps come between its steps.
NextFrame ==
    \/ now < FrameTime /\ Tick
    \/ seq.events < FrameEvents /\ admin_add_event(now + 1, 1)
    \/ \E eid \in DOMAIN events : admin_del_event(eid)
    \/ \E eid \in DOMAIN events : ~events[eid].link /\ admin_set_link(eid)
    \/ \E u \in 1..FrameUsers : u \notin blocked /\ admin_block(u)
    \/ \E u \in blocked : admin_unblock(u)
    \/ \E e \in DOMAIN events, u \in 1..FrameUsers :
         seq.requests + Requesting < FrameRequests /\ request_start(1, e, u)
    \/ \E e \in DOMAIN events, u \in 1..FrameUsers :
         seq.jobs + 2 * Approving + 2 <= FrameJobs /\ approve_start(1, e, u)
    \/ \E e \in DOMAIN events, u \in 1..FrameUsers : approve_not_admin(1, e, u)
    \/ \E e \in DOMAIN events, u \in 1..FrameUsers : decline_start(1, e, u)
    \/ \E e \in DOMAIN events, u \in 1..FrameUsers : decline_not_admin(1, e, u)
    \/ \E e \in DOMAIN events, u \in 1..FrameUsers, by_admin \in BOOLEAN :
         cancel_start(1, e, u, by_admin)
    \/ \E e \in DOMAIN events, u \in 1..FrameUsers, ans \in {"yes", "no"} :
         confirm_start(1, e, u, ans)
    \/ request_is_blocked(1)
    \/ request_get_event(1)
    \/ request_has_pending(1)
    \/ request_signup_get(1)
    \/ request_create(1)
    \/ approve_get_event(1)
    \/ approve_find_pending(1)
    \/ approve_mark_request(1)
    \/ approve_signup_confirm(1)
    \/ approve_edit_text_raises(1)
    \/ approve_add_confirm_job(1)
    \/ approve_add_reminder_job(1)
    \/ decline_get_event(1)
    \/ decline_find_pending(1)
    \/ decline_mark_request(1)
    \/ cancel_is_blocked(1)
    \/ cancel_get_event(1)
    \/ cancel_signup_get(1)
    \/ cancel_set_cancelled(1)
    \/ confirm_is_blocked(1)
    \/ confirm_signup_get(1)
    \/ confirm_get_event(1)
    \/ confirm_set_confirm_status(1)
    \/ confirm_set_cancelled(1)
    \/ dec_begin(1)
    \/ dec_select(1)
    \/ dec_rollback(1)
    \/ dec_update(1)
    \/ inc_begin(1)
    \/ inc_select(1)
    \/ inc_rollback(1)
    \/ inc_update(1)
    \/ task_exit(1)
    \/ sched_sweep_select
    \/ sched_sweep_delete
    \/ sched_fetch
    \/ sched_get_event
    \/ sched_signup_get
    \/ sched_is_blocked
    \/ sched_mark_skip
    \/ sched_send_ok
    \/ sched_send_raises
    \/ sched_mark_sent
    \/ sched_sleep

SpecFrame == Init /\ [][NextFrame]_vars

\* ------------------------------------------------------------- SpecAlone
\* Handlers one at a time: each runs from its start to its end with nothing
\* else running in between.  Event ids that were never added or were
\* deleted are inputs too.
NextAlone ==
    \/ \E cap \in 1..MaxCap :
         tasks[1] = IdleTask /\ seq.events < AloneEvents /\ admin_add_event(now + 1, cap)
    \/ \E e \in DOMAIN events : tasks[1] = IdleTask /\ admin_del_event(e)
    \/ \E e \in 1..AloneEvents, u \in 1..AloneUsers :
         seq.requests < AloneRequests /\ request_start(1, e, u)
    \/ \E e \in 1..AloneEvents, u \in 1..AloneUsers :
         seq.jobs + 2 <= AloneJobs /\ approve_start(1, e, u)
    \/ \E e \in 1..AloneEvents, u \in 1..AloneUsers : decline_start(1, e, u)
    \/ \E e \in 1..AloneEvents, u \in 1..AloneUsers, by_admin \in BOOLEAN :
         cancel_start(1, e, u, by_admin)
    \/ \E e \in 1..AloneEvents, u \in 1..AloneUsers, ans \in {"yes", "no"} :
         confirm_start(1, e, u, ans)
    \/ request_is_blocked(1)
    \/ request_get_event(1)
    \/ request_has_pending(1)
    \/ request_signup_get(1)
    \/ request_create(1)
    \/ approve_get_event(1)
    \/ approve_find_pending(1)
    \/ approve_mark_request(1)
    \/ approve_signup_confirm(1)
    \/ approve_edit_text_raises(1)
    \/ approve_add_confirm_job(1)
    \/ approve_add_reminder_job(1)
    \/ decline_get_event(1)
    \/ decline_find_pending(1)
    \/ decline_mark_request(1)
    \/ cancel_is_blocked(1)
    \/ cancel_get_event(1)
    \/ cancel_signup_get(1)
    \/ cancel_set_cancelled(1)
    \/ confirm_is_blocked(1)
    \/ confirm_signup_get(1)
    \/ confirm_get_event(1)
    \/ confirm_set_confirm_status(1)
    \/ confirm_set_cancelled(1)
    \/ dec_begin(1)
    \/ dec_select(1)
    \/ dec_rollback(1)
    \/ dec_update(1)
    \/ inc_begin(1)
    \/ inc_select(1)
    \/ inc_update(1)
    \/ task_exit(1)

SpecAlone == Init /\ [][NextAlone]_vars

\* -------------------------------------------------------------- SpecJobs
\* One approval of one user for one event that starts up to JobsStart hours
\* ahead, the clock running meanwhile.
NextJobs ==
    \/ now < JobsTime /\ Tick
    \/ \E start_ts \in (now + 1)..JobsStart : seq.events < 1 /\ admin_add_event(start_ts, 1)
    \/ \E e \in DOMAIN events : seq.jobs + 2 * Approving + 2 <= 2 /\ approve_start(1, e, 1)
    \/ approve_get_event(1)
    \/ approve_find_pending(1)
    \/ approve_signup_confirm(1)
    \/ approve_edit_text_raises(1)
    \/ approve_add_confirm_job(1)
    \/ approve_add_reminder_job(1)
    \/ dec_begin(1)
    \/ dec_select(1)
    \/ dec_rollback(1)
    \/ dec_update(1)
    \/ task_exit(1)

SpecJobs == Init /\ [][NextJobs]_vars

\* ------------------------------------------------------------ properties
\* C1: for every event, in every reachable state, 0 <= remaining <= capacity,
\* under any interleaving of try_reserve and release calls.
C1_RemainingInRange ==
    \A e \in DOMAIN events : 0 <= events[e].remaining /\ events[e].remaining <= events[e].capacity

\* A release has run against an event that was already full (the clamp's
\* case) while another caller's reserve had taken the last seat of an event.
C1_Witness ==
    \E t, u \in DOMAIN tasks :
        /\ tasks[t].kind = "release" /\ tasks[t].pc = "done"
        /\ tasks[t].cap > 0 /\ tasks[t].rem = tasks[t].cap
        /\ tasks[u].kind = "reserve" /\ tasks[u].pc = "done" /\ tasks[u].ok
        /\ tasks[u].rem = 1

Callers == {t \in DOMAIN tasks : tasks[t].kind = "reserve"}
AllReturned == \A t \in Callers : tasks[t].pc = "done"
Succeeded == {t \in Callers : tasks[t].pc = "done" /\ tasks[t].ok}

\* C2: when N try_reserve calls run concurrently against one existing event
\* whose remaining is k < N, exactly k return true, N - k return false, and
\* remaining ends at 0.
C2_ExactlyKSucceed ==
    (AllReturned /\ hist.k0 < Cardinality(Callers)) =>
        /\ Cardinality(Succeeded) = hist.k0
        /\ Cardinality(Callers \ Succeeded) = Cardinality(Callers) - hist.k0
        /\ events[1].remaining = 0

\* Three calls on an event with one or two seats left have all returned.
C2_Witness ==
    /\ AllReturned
    /\ Cardinality(Callers) >= 3
    /\ hist.k0 >= 1
    /\ hist.k0 < Cardinality(Callers)
    /\ Succeeded # {} /\ Succeeded # Callers

\* The users whose signup for event e has status confirmed.
ConfirmedUsers(e) ==
    {k[1] : k \in {x \in DOMAIN signups : x[2] = e /\ signups[x].status = "confirmed"}}

\* C3: oversell prevention: for every event, the number of users whose signup
\* for it is confirmed never exceeds the event's capacity, whatever the
\* interleaving of approvals, cancellations and confirmation answers.
C3_NoOversell ==
    \A e \in DOMAIN events : Cardinality(ConfirmedUsers(e)) <= events[e].capacity

\* C4: two polls in a row with no change of the store or the clock between
\* them never send for the same job twice: a job the first poll called
\* send_message for is not one the second poll calls send_message for.
C4_NoDoubleSend ==
    hist.quiet => hist.prev \cap hist.cur = {}

\* C5: when a poll is over, every job it called send_message for is marked
\* sent, whether send_message returned or raised.
C5_SentAfterAttempt ==
    sched.pc = "sleep" => \A j \in jobs : j.job_id \in hist.cur => j.sent

\* C6: a poll ends only when every job it fetched has been gone through: at
\* the step into the sleep no fetched job after the current one is left,
\* even when send_message raised for the current one.
C6_RestOfPollProcessed ==
    [][(sched.pc # "sleep" /\ sched'.pc = "sleep") => Len(sched.jobs) <= 1]_vars

JobDue(id) == \E j \in jobs : j.job_id = id /\ ~j.sent /\ j.run_ts <= now
JobSettled(id) == \A j \in jobs : j.job_id = id => j.sent

\* C7: under fairness of the scheduler loop, every job whose run_ts has been
\* reached is eventually marked sent or deleted, even when send_message for
\* another due job raises on every attempt.
C7_DueJobSettles ==
    \A id \in 1..SchedJobs : JobDue(id) ~> JobSettled(id)

\* A poll ended on a raising send for one due job while another due job,
\* ordered after it, waits.
C7_Witness ==
    /\ sched.pc = "sleep"
    /\ \E a \in hist.cur, b \in 1..SchedJobs :
         /\ a # b /\ JobDue(a) /\ JobDue(b)
         /\ \A j, k \in jobs : j.job_id = a /\ k.job_id = b => j.run_ts < k.run_ts

\* C8: a stale job never fires: when at re-validation the event is gone, the
\* signup is missing or not confirmed, the user is blocked, or the event's
\* start_ts <= the poll's now_ts, the scheduler goes on to mark the job sent,
\* and that step marks it (or finds it deleted) without send_message being
\* called for the job in this poll.
C8_StaleJobNeverFires ==
    [][/\ (sched.pc = "signup_get" /\ sched'.pc # "signup_get"
            /\ (sched.ev = NoEvent \/ sched'.s = NoSignup \/ sched'.s.status # "confirmed"))
           => sched'.pc = "mark_skip"
       /\ (sched.pc = "is_blocked" /\ sched'.pc # "is_blocked"
            /\ (CurJob.user_id \in blocked \/ sched.ev.start_ts <= sched.now_ts))
           => sched'.pc = "mark_skip"
       /\ (sched.pc = "mark_skip" /\ sched'.pc # "mark_skip")
           => /\ \A j \in jobs' : j.job_id = CurJob.job_id => j.sent
              /\ CurJob.job_id \notin hist'.cur
      ]_vars

\* The scheduler is about to discard the job of a blocked user whose signup
\* is confirmed and whose event is still ahead.
C8_Witness ==
    /\ sched.pc = "mark_skip"
    /\ sched.ev # NoEvent /\ sched.ev.start_ts > sched.now_ts
    /\ sched.s.status = "confirmed"
    /\ CurJob.user_id \in blocked
    /\ \E j \in jobs : j.job_id = CurJob.job_id /\ ~j.sent

\* C9: an event with start_ts <= now is absent from db_list_events_future,
\* and send_message is never reached for a job of an event whose start_ts <=
\* the poll's now_ts.
C9_ExpiredEventSilent ==
    /\ \A e \in DOMAIN events : events[e].start_ts <= now => e \notin db_list_events_future
    /\ sched.pc \in {"send", "mark_sent"} =>
          /\ sched.ev.start_ts > sched.now_ts
          /\ CurJob.event_id \in DOMAIN events =>
                events[CurJob.event_id].start_ts > sched.now_ts

\* The sweep ran before the event's start and the jobs were fetched at its
\* start: the job is due, its signup confirmed, its user not blocked, and the
\* start-time test has sent it to be discarded.
C9_Witness ==
    /\ sched.pc = "mark_skip"
    /\ sched.ev # NoEvent /\ sched.ev.start_ts <= sched.now_ts
    /\ sched.s.status = "confirmed"
    /\ CurJob.user_id \notin blocked
    /\ CurJob.run_ts <= sched.now_ts
    /\ CurJob.event_id \in DOMAIN events
    /\ CurJob.event_id \notin db_list_events_future

\* The rows of a table that hang on an event outside gone.
KeptRequests(gone) == {r \in requests : r.event_id \notin gone}
KeptSignups(gone) == {k \in DOMAIN signups : k[2] \notin gone}
KeptJobs(gone) == {j \in jobs : j.event_id \notin gone}

\* C10: after the sweep no event with start_ts <= the sweep's now is left and
\* no request, signup or job row refers to an event the sweep deleted; the
\* events with start_ts > now and the rows that hang on them are unchanged.
C10_SweepEffectAndFrame ==
    [][(sched.pc = "sweep_delete" /\ sched'.pc = "fetch") =>
         /\ \A e \in DOMAIN events' : events'[e].start_ts > sched.sweep_ts
         /\ \A r \in requests' : r.event_id \notin sched.gone
         /\ \A k \in DOMAIN signups' : k[2] \notin sched.gone
         /\ \A j \in jobs' : j.event_id \notin sched.gone
         /\ \A e \in DOMAIN events :
              events[e].start_ts > sched.sweep_ts =>
                  e \in DOMAIN events' /\ events'[e] = events[e]
         /\ requests' = KeptRequests(sched.gone)
         /\ DOMAIN signups' = KeptSignups(sched.gone)
         /\ \A k \in DOMAIN signups' : signups'[k] = signups[k]
         /\ jobs' = KeptJobs(sched.gone)
      ]_vars

\* The sweep has selected an expired event that carries a request, a signup
\* and a job, while an event still ahead carries a request.
C10_Witness ==
    /\ sched.pc = "sweep_delete"
    /\ \E g \in sched.gone :
         /\ g \in DOMAIN events
         /\ \E r \in requests : r.event_id = g
         /\ \E k \in DOMAIN signups : k[2] = g
         /\ \E j \in jobs : j.event_id = g
    /\ \E e \in DOMAIN events \ sched.gone : \E r \in requests : r.event_id = e

\* The later of two times.
Later(a, b) == IF a >= b THEN a ELSE b

\* The jobs of a (user, event) pair of a given kind.
JobsOf(user_id, event_id, job_type) ==
    {j \in jobs : j.user_id = user_id /\ j.event_id = event_id /\ j.job_type = job_type}

PendingOf(user_id, event_id) ==
    {r \in requests : r.user_id = user_id /\ r.event_id = event_id /\ r.status = "pending"}

\* The approve handler of task t has taken its seat: it read the event and a
\* positive remaining, and is past db_signup_confirm.
ApproveReserved(t) ==
    /\ tasks[t].kind = "admin_approve"
    /\ tasks[t].pc \in {"add_confirm", "add_reminder", "done"}
    /\ tasks[t].ev # NoEvent /\ tasks[t].rem > 0

\* C12: when approve(event_id, user_id) runs alone against an existing event
\* with remaining > 0, afterwards remaining is one less than it was, the most
\* recent pending request of the pair, if there was one, is approved and none
\* is left pending, and the signup of the pair is confirmed with
\* confirm_status unknown.
C12_ApproveEffect ==
    \A t \in DOMAIN tasks :
        ApproveReserved(t) =>
            LET u == tasks[t].user_id
                e == tasks[t].event_id
            IN /\ e \in DOMAIN events
               /\ events[e].remaining = tasks[t].ev.remaining - 1
               /\ <<u, e>> \in DOMAIN signups
               /\ signups[<<u, e>>] = [status |-> "confirmed", confirm_status |-> "unknown"]
               /\ tasks[t].req_id # 0 =>
                     \E r \in requests :
                        /\ r.request_id = tasks[t].req_id
                        /\ r.user_id = u /\ r.event_id = e /\ r.status = "approved"
                        /\ \A q \in PendingOf(u, e) : q.created_ts <= r.created_ts
               /\ tasks[t].req_id = 0 => PendingOf(u, e) = {}

\* An approval found a pending request and took the last seat of the event;
\* it is the second approval that ran to its end.
C12_Witness ==
    \E t \in DOMAIN tasks :
        /\ ApproveReserved(t) /\ tasks[t].pc = "done" /\ tasks[t].ok
        /\ tasks[t].req_id # 0
        /\ tasks[t].ev.remaining = 1
        /\ seq.jobs = 4

\* The approve handler of task t is before its reservation and the event is
\* missing or has no seat left.
ApproveRefused(t) ==
    /\ tasks[t].kind = "admin_approve"
    /\ tasks[t].pc \in {"get_event", "dec_begin", "dec_select", "dec_rollback"}
    /\ \/ tasks[t].event_id \notin DOMAIN events
       \/ events[tasks[t].event_id].remaining = 0

\* C13: when approve(event_id, user_id) is invoked for an event that does not
\* exist or whose remaining is 0, no step of it changes the store (remaining,
\* requests, signups, jobs), it never reaches the reservation's UPDATE, and
\* it ends reporting failure.
C13_RefusedApproveNoEffect ==
    [][\A t \in DOMAIN tasks :
         ApproveRefused(t) =>
            /\ store' = store
            /\ tasks'[t].pc \in {"get_event", "dec_begin", "dec_select", "dec_rollback", "done"}
            /\ tasks'[t].pc = "done" => ~tasks'[t].ok
      ]_vars

\* An approve for an existing event with no seat left is about to roll back,
\* while signups, requests and jobs exist.
C13_Witness ==
    \E t \in DOMAIN tasks :
        /\ ApproveRefused(t) /\ tasks[t].pc = "dec_rollback"
        /\ tasks[t].event_id \in DOMAIN events
        /\ requests # {} /\ jobs # {} /\ DOMAIN signups # {}

\* C14: an approve(event_id, user_id) invoked while the user already holds a
\* confirmed signup for the event changes no state: up to the point where it
\* would write the signup, no step of it changes the store.
C14_SecondApproveNoOp ==
    [][\A t \in DOMAIN tasks :
         (/\ tasks[t].kind = "admin_approve"
          /\ tasks[t].pc \in {"get_event", "dec_begin", "dec_select", "dec_rollback",
                               "dec_update", "find_pending", "mark_request"}
          /\ db_signup_get(tasks[t].user_id, tasks[t].event_id).status = "confirmed")
         => store' = store
      ]_vars

RequestRejected(t) ==
    /\ tasks[t].kind = "signup_request"
    /\ tasks[t].pc \in {"is_blocked", "get_event", "has_pending", "signup_get"}
    /\ \/ tasks[t].event_id \notin DOMAIN events
       \/ events[tasks[t].event_id].remaining <= 0
       \/ PendingOf(tasks[t].user_id, tasks[t].event_id) # {}
       \/ db_signup_get(tasks[t].user_id, tasks[t].event_id).status = "confirmed"

C18_DeclineTouchesOnlyRequest ==
    [][\A t \in DOMAIN tasks :
         tasks[t].kind = "admin_decline" =>
            LET u == tasks[t].user_id
                e == tasks[t].event_id
            IN /\ <<events, signups, jobs>>' = <<events, signups, jobs>>
               /\ tasks[t].pc # "mark_request" => requests' = requests
               /\ (tasks[t].pc = "find_pending" /\ PendingOf(u, e) = {})
                     => tasks'[t].pc = "done"
               /\ (tasks[t].pc = "find_pending" /\ PendingOf(u, e) # {})
                     => tasks'[t].pc = "mark_request"
               /\ tasks[t].pc = "mark_request"
                     => \E r \in PendingOf(u, e) :
                          /\ \A q \in PendingOf(u, e) : q.created_ts <= r.created_ts
                          /\ requests' = (requests \ {r})
                                            \cup {[r EXCEPT !.status = "declined"]}
                          /\ tasks'[t].pc = "done"
      ]_vars

\* A decline marked a request of a user who holds a confirmed signup with
\* jobs, of an event with a taken seat.
C18_Witness ==
    \E t \in DOMAIN tasks :
        /\ tasks[t].kind = "admin_decline" /\ tasks[t].pc = "done" /\ tasks[t].req_id # 0
        /\ tasks[t].event_id \in DOMAIN events
        /\ events[tasks[t].event_id].remaining < events[tasks[t].event_id].capacity
        /\ JobsOf(tasks[t].user_id, tasks[t].event_id, "confirm") # {}

\* The cancel of task t has not decided yet and the event is missing or the
\* signup is not confirmed.
CancelRefused(t) ==
    /\ tasks[t].kind = "cancel"
    /\ tasks[t].pc \in {"is_blocked", "get_event", "signup_get"}
    /\ \/ tasks[t].event_id \notin DOMAIN events
       \/ db_signup_get(tasks[t].user_id, tasks[t].event_id).status # "confirmed"

\* C19: cancel(user, event, initiator) fails and changes nothing in the store
\* unless the event exists and the signup of (user, event) is confirmed; in
\* that case it goes on, and when it has succeeded the signup is cancelled
\* with confirm_status no and remaining is min(capacity, remaining + 1) of
\* the event row it read.
C19_Cancel ==
    [][\A t \in DOMAIN tasks :
         /\ CancelRefused(t)
               => /\ store' = store
                  /\ tasks'[t].pc \in {"get_event", "signup_get", "done"}
                  /\ tasks'[t].pc = "done" => ~tasks'[t].ok
         /\ (tasks[t].kind = "cancel" /\ ~CancelRefused(t)
               /\ tasks[t].pc \in {"is_blocked", "get_event", "signup_get"})
               => /\ store' = store
                  /\ tasks'[t].pc \in {"get_event", "signup_get", "set_cancelled"}
         /\ (tasks[t].kind = "cancel" /\ tasks[t].pc \in {"set_cancelled", "inc_begin", "inc_select"})
               => tasks'[t].pc \in {"inc_begin", "inc_select", "inc_update"}
         /\ (tasks[t].kind = "cancel" /\ tasks[t].pc = "inc_update")
               => /\ tasks'[t].pc = "done" /\ tasks'[t].ok
                  /\ signups'[<<tasks[t].user_id, tasks[t].event_id>>]
                       = [status |-> "cancelled", confirm_status |-> "no"]
                  /\ events'[tasks[t].event_id].remaining
                       = Min(tasks[t].ev.capacity, tasks[t].ev.remaining + 1)
                  /\ <<requests, jobs>>' = <<requests, jobs>>
      ]_vars

\* The operator's cancel gave back the seat of a full event.
C19_Witness ==
    \E t \in DOMAIN tasks :
        /\ tasks[t].kind = "cancel" /\ tasks[t].pc = "done" /\ tasks[t].ok
        /\ tasks[t].by_admin
        /\ tasks[t].ev.remaining = 0
        /\ events[tasks[t].event_id].remaining = 1

\* C17: in every reachable state there is at most one pending request per
\* (user, event) pair, also when request handlers of one pair interleave.
C17_OnePendingPerPair ==
    \A u \in 1..ReqUsers, e \in DOMAIN events : Cardinality(PendingOf(u, e)) <= 1

\* C20: a "no" answer to the confirmation prompt followed, after it
\* returned, by cancel(u, e): the answer's release writes remaining once, as
\* min(capacity, remaining + 1) of the row it read, and no step of the
\* cancel changes the store; the cancel is refused and never reaches its
\* own write or release.
C20_NoThenCancelReleasesOnce ==
    [][\A t \in DOMAIN tasks :
         /\ (tasks[t].kind = "user_confirm" /\ tasks[t].pc = "inc_update")
               => events'[tasks[t].event_id].remaining
                    = Min(tasks[t].ev.capacity, tasks[t].ev.remaining + 1)
         /\ (tasks[t].kind = "cancel" /\ tasks[t].pc # "done")
               => /\ store' = store
                  /\ tasks'[t].pc \in {"get_event", "signup_get", "done"}
                  /\ tasks'[t].pc = "done" => ~tasks'[t].ok
      ]_vars

\* The cancel after a "no" answer was refused on a cancelled signup while
\* the other user holds a seat of the event, so that a second release would
\* have shown in remaining.
C20_Witness ==
    \E t \in DOMAIN tasks :
        /\ tasks[t].kind = "cancel" /\ tasks[t].pc = "done" /\ ~tasks[t].ok
        /\ tasks[t].s = [status |-> "cancelled", confirm_status |-> "no"]
        /\ events[tasks[t].event_id].capacity = 2
        /\ events[tasks[t].event_id].remaining = 1
        /\ \E k \in DOMAIN signups : signups[k].status = "confirmed"

\* The answer handler of task t has not decided yet and the event is missing
\* or the signup is missing or not confirmed.
ConfirmUnavailable(t) ==
    /\ tasks[t].kind = "user_confirm"
    /\ tasks[t].pc \in {"is_blocked", "signup_get", "get_event"}
    /\ \/ tasks[t].event_id \notin DOMAIN events
       \/ db_signup_get(tasks[t].user_id, tasks[t].event_id).status # "confirmed"

\* C21: handle_confirm_response(user, event, answer) changes nothing in the
\* store and ends as unavailable when the event is missing or the signup is
\* missing or not confirmed; with a confirmed signup it goes on, and for the
\* answer yes its one write sets confirm_status to yes and leaves the
\* signup's status, every other signup, the events, the requests and the
\* jobs as they were.
C21_ConfirmResponse ==
    [][\A t \in DOMAIN tasks :
         LET k == <<tasks[t].user_id, tasks[t].event_id>> IN
         /\ ConfirmUnavailable(t)
               => /\ store' = store
                  /\ tasks'[t].pc \in {"signup_get", "get_event", "done"}
                  /\ tasks'[t].pc = "done" => ~tasks'[t].ok
         /\ (tasks[t].kind = "user_confirm" /\ ~ConfirmUnavailable(t)
               /\ tasks[t].pc \in {"is_blocked", "signup_get", "get_event"})
               => /\ store' = store
                  /\ tasks'[t].pc \in {"signup_get", "get_event", "set_confirm_status"}
         /\ (tasks[t].kind = "user_confirm" /\ tasks[t].ans = "yes"
               /\ tasks[t].pc = "set_confirm_status")
               => /\ signups' = [signups EXCEPT ![k] =
                                   [status |-> "confirmed", confirm_status |-> "yes"]]
                  /\ signups[k].status = "confirmed"
                  /\ <<events, requests, jobs, blocked, seq>>' = <<events, requests, jobs, blocked, seq>>
                  /\ tasks'[t].pc = "done" /\ tasks'[t].ok
      ]_vars

\* A yes was recorded for a signup whose event carries jobs and a request.
C21_Witness ==
    \E t \in DOMAIN tasks :
        /\ tasks[t].kind = "user_confirm" /\ tasks[t].ans = "yes"
        /\ tasks[t].pc = "done" /\ tasks[t].ok
        /\ signups[<<tasks[t].user_id, tasks[t].event_id>>].confirm_status = "yes"
        /\ jobs # {} /\ requests # {}

\* Task t is at the UPDATE of db_event_increment_remaining(e), called by a
\* cancel or by the answer no, both past their checks.
Releasing(t, e) ==
    /\ tasks[t].pc = "inc_update" /\ tasks[t].event_id = e
    /\ \/ tasks[t].kind = "cancel"
       \/ tasks[t].kind = "user_confirm" /\ tasks[t].ans = "no"

\* C22: the remaining of an existing event increases only in the releasing
\* step of a cancel or of an answer no for that event; no step of a request,
\* an approve, a decline, an answer yes, the scheduler, the sweep, set_link,
\* block or unblock increases it.
C22_OnlyReleaseIncreases ==
    [][\A e \in DOMAIN events \cap DOMAIN events' :
          events'[e].remaining > events[e].remaining
             => \E t \in DOMAIN tasks : Releasing(t, e) /\ tasks'[t].pc = "done"
      ]_vars

\* An answer no gave back the seat of a full event.
C22_Witness ==
    \E t \in DOMAIN tasks :
        /\ tasks[t].kind = "user_confirm" /\ tasks[t].ans = "no"
        /\ tasks[t].pc = "done" /\ tasks[t].ok
        /\ tasks[t].ev.remaining = 0
        /\ tasks[t].event_id \in DOMAIN events
        /\ events[tasks[t].event_id].remaining = 1

\* C25: a signup row is created, or goes from another status to confirmed,
\* only in the db_signup_confirm step of an approve that came from the
\* operator's chat; no step of a request, a cancel, an answer, a decline,
\* an approve or decline callback from another chat, or the scheduler does
\* that.
C25_OnlyOperatorConfirms ==
    [][\A k \in DOMAIN signups' :
          (\/ k \notin DOMAIN signups
           \/ signups'[k].status = "confirmed" /\ signups[k].status # "confirmed")
          => \E t \in DOMAIN tasks :
                /\ tasks[t].kind = "admin_approve" /\ tasks[t].by_admin
                /\ tasks[t].pc = "signup_confirm" /\ tasks'[t].pc = "add_confirm"
                /\ k = <<tasks[t].user_id, tasks[t].event_id>>
                /\ signups'[k].status = "confirmed"
      ]_vars

\* The operator's approve has just written the confirmed signup of a user
\* whose request it marked approved.
C25_Witness ==
    \E t \in DOMAIN tasks :
        /\ tasks[t].kind = "admin_approve" /\ tasks[t].by_admin
        /\ tasks[t].pc = "add_confirm"
        /\ <<tasks[t].user_id, tasks[t].event_id>> \in DOMAIN signups
        /\ signups[<<tasks[t].user_id, tasks[t].event_id>>].status = "confirmed"
        /\ \E r \in requests : r.status = "approved"

\* C23: end to end on an event of capacity 1, operations one after another:
\* when user A's request has been approved remaining is 0; a request of
\* user B made then is refused and creates no request; A's cancel succeeds
\* and leaves remaining 1; a request of B made after that is accepted and
\* leaves exactly one pending request of B.
C23_EndToEnd ==
    \A t \in DOMAIN tasks :
        LET u == tasks[t].user_id
            e == tasks[t].event_id
            ended == tasks[t].pc = "done"
        IN /\ ApproveReserved(t) => events[e].remaining = 0
           /\ (ended /\ tasks[t].kind = "signup_request" /\ SeatHolders # {})
                 => \A a \in SeatHolders :
                      /\ signups[<<a, e>>].status = "confirmed"
                           => /\ ~tasks[t].ok
                              /\ events[e].remaining = 0
                              /\ \A r \in requests : r.user_id # u
                      /\ signups[<<a, e>>].status = "cancelled"
                           => /\ tasks[t].ok
                              /\ events[e].remaining = 1
                              /\ Cardinality(PendingOf(u, e)) = 1
           /\ (ended /\ tasks[t].kind = "cancel")
                 => /\ tasks[t].ok
                    /\ events[e].remaining = 1
                    /\ signups[<<u, e>>].status = "cancelled"

\* The end of the run: A's request was approved, A has cancelled, and B's
\* request has just been accepted.
C23_Witness ==
    \E t \in DOMAIN tasks :
        /\ tasks[t].kind = "signup_request" /\ tasks[t].pc = "done" /\ tasks[t].ok
        /\ SeatHolders # {} /\ tasks[t].user_id \notin SeatHolders
        /\ \A k \in DOMAIN signups : signups[k].status = "cancelled"
        /\ seq.requests = 2
        /\ \E r \in requests : r.status = "approved"

\* C24: a job's sent flag is monotonic: a job that has sent = TRUE keeps it
\* for as long as its row exists, and send_message is never reached for a
\* job whose row has sent = TRUE, whatever approvals, cancellations and
\* re-approvals happen in between.
C24_SentIsMonotonic ==
    [][/\ \A j \in jobs : j.sent => \A n \in jobs' : n.job_id = j.job_id => n.sent
       /\ sched.pc = "send" => \A j \in jobs : j.job_id = CurJob.job_id => ~j.sent
       /\ (sched.pc = "fetch" /\ sched'.pc # "fetch")
             => \A i \in 1..Len(sched'.jobs) :
                  \A j \in jobs : j.job_id = sched'.jobs[i].job_id => ~j.sent
      ]_vars

\* The scheduler is about to send for a job of the second approval while a
\* job of the first approval is marked sent.
C24_Witness ==
    /\ sched.pc = "send"
    /\ seq.jobs = 4
    /\ CurJob.job_id > 2
    /\ \E j \in jobs : j.job_id <= 2 /\ j.sent

\* C26: a poll fetches exactly the jobs that have sent = FALSE and run_ts <=
\* the poll's now_ts, reaches send_message only for a job with run_ts <=
\* now_ts, and marks only such a job sent: a job whose run_ts is still ahead
\* is neither dispatched nor marked by that poll.
C26_OnlyDueJobs ==
    [][/\ (sched.pc = "fetch" /\ sched'.pc # "fetch")
             => /\ sched'.now_ts = now
                /\ {sched'.jobs[i].job_id : i \in 1..Len(sched'.jobs)}
                     = {j.job_id : j \in {x \in jobs : ~x.sent /\ x.run_ts <= now}}
       /\ sched.pc = "send" => CurJob.run_ts <= sched.now_ts
       /\ \A j \in jobs :
             (~j.sent /\ \E n \in jobs' : n.job_id = j.job_id /\ n.sent)
                => j.run_ts <= sched.now_ts /\ j.job_id = CurJob.job_id
      ]_vars

\* The scheduler is about to send for a due job while the reminder of the
\* same approval is still ahead of the poll's now_ts.
C26_Witness ==
    /\ sched.pc = "send"
    /\ \E j \in jobs :
         /\ ~j.sent /\ j.run_ts > sched.now_ts
         /\ j.user_id = CurJob.user_id /\ j.event_id = CurJob.event_id

\* C29: per confirmed period at most one confirm prompt and at most one
\* reminder go out: when a signup is approved, cancelled and approved again,
\* the unsent jobs of the first approval do not fire beside those of the
\* second: a poll that has called send_message for a job does not call it
\* for another job of the same user, event and type.
C29_OnePromptPerPeriod ==
    sched.pc = "send" =>
        \A j \in jobs :
            (j.job_id \in hist.cur /\ j.job_id # CurJob.job_id)
               => ~(/\ j.user_id = CurJob.user_id
                    /\ j.event_id = CurJob.event_id
                    /\ j.job_type = CurJob.job_type)

\* No handler is running.
NothingInFlight == \A t \in DOMAIN tasks : tasks[t] = IdleTask

\* C27: seat accounting: whenever no operation is in flight, every existing
\* event has remaining + (number of its confirmed signups) = capacity, after
\* any sequence of request, approve, decline, cancel and answer operations
\* run one after another.
C27_SeatAccounting ==
    NothingInFlight =>
        \A e \in DOMAIN events :
            events[e].remaining + Cardinality(ConfirmedUsers(e)) = events[e].capacity

\* The signup rows of event e, and those of them that are cancelled.  Under
\* SpecRelease every row stands for one approval, and a cancelled row for
\* an approval whose seat was given back.
SignupRows(e) == {k \in DOMAIN signups : k[2] = e}
CancelledRows(e) == {k \in SignupRows(e) : signups[k].status = "cancelled"}

\* C28: when a cancel and an answer no for the same (user, event), or two
\* cancels of it, interleave, the seat is released exactly once: with every
\* user approved at most once, when no handler is running remaining is the
\* capacity less one per approval plus one per cancelled signup.
C28_ReleasedExactlyOnce ==
    NothingInFlight =>
        \A e \in DOMAIN events :
            events[e].remaining =
                events[e].capacity - Cardinality(SignupRows(e)) + Cardinality(CancelledRows(e))

\* C30: referential integrity: whenever no handler is running and the
\* scheduler is between polls, every request, signup and job row refers to
\* an event that exists, also when an approve or a request that has read
\* the event interleaves with the sweep or with the operator's delete of
\* that event.
C30_NoOrphanRows ==
    (NothingInFlight /\ sched.pc \in {"sweep", "sleep"}) =>
        /\ \A r \in requests : r.event_id \in DOMAIN events
        /\ \A k \in DOMAIN signups : k[2] \in DOMAIN events
        /\ \A j \in jobs : j.event_id \in DOMAIN events

\* C31: in every reachable state a signup whose status is cancelled has
\* confirm_status no, also when an answer yes to the confirmation prompt
\* interleaves with a cancel of the same (user, event).
C31_CancelledMeansNo ==
    \A k \in DOMAIN signups :
        signups[k].status = "cancelled" => signups[k].confirm_status = "no"

=============================================================================
